---------------------------- MODULE Spec2Model ----------------------------
(***************************************************************************)
(* Node execution engine (dynamiq/nodes/node.py) and ReAct reasoning loop  *)
(* (dynamiq/nodes/agents/react.py).                                        *)
(*                                                                         *)
(* One Node.run is modelled step by step: the program counter `pc` is the  *)
(* position inside run / execute_with_retry / execute_with_timeout, and    *)
(* `events` is the sequence of callback events delivered to the observers. *)
(* Observers are taken not to raise.                                       *)
(* Node.get_input_streaming_event (SpecStreaming) and Node.depends_on      *)
(* (SpecDepends) are modelled as separate state machines.                  *)
(***************************************************************************)
EXTENDS Integers, Sequences, FiniteSets, TLC

VARIABLES
    node,               \* the constructed Node (its configuration fields)
    cache,              \* the cache backend: key -> stored output
    pc,                 \* position of the caller's thread inside Node.run
    input_data,         \* argument of run
    depends_result,     \* argument of run: predecessor id -> result
    cache_config,       \* config.cache permits caching for this run
    transformed_input,  \* local of run
    events,             \* callback events emitted so far, in order
    attempt,            \* loop variable of execute_with_retry
    error,              \* last error caught (execute_with_retry / run)
    sleeps,             \* durations passed to time.sleep, in order
    worker,             \* the ThreadPoolExecutor worker running execute
    worker_out,         \* what the worker's execute returned
    worker_err,         \* the kind of exception the worker's execute raised
    executes,           \* number of times execute was submitted
    stores,             \* keys passed to the cache backend's set, in order
    output,             \* local of run: output of the cache gate
    from_cache,         \* local of run: the cache gate's second result
    result,             \* what run gave back to its caller
    apc,                \* position of the worker inside ReActAgent._run_agent
    loop_num,           \* loop variable of _run_agent
    previous_responses, \* local of _run_agent: the context entries
    intermediate_steps, \* self._intermediate_steps: loop_num -> record
    action,             \* local of _run_agent: the parsed action
    responses,          \* the model's replies in this execute, in order
    llm_calls,          \* number of self.llm.run calls in this run
    tool_runs,          \* number of tool.run calls in this run
    tool_ends,          \* how the tool.run calls of this execute ended
    callbacks,          \* config.callbacks: the observers, in registration order
    deliveries,         \* the callback calls made so far, in order
    is_output_from_cache, \* the mark run passes to the node-end event
    runs,               \* concurrent runs of one instance: run id -> locals
    writers,            \* which run wrote each record of intermediate_steps
    streaming,          \* the streaming configuration get_input_streaming_event uses
    input_queue,        \* streaming.input_queue: the messages waiting
    done_event,         \* streaming.input_queue_done_event is set
    gpc,                \* position inside get_input_streaming_event
    wanted,             \* argument `event` of get_input_streaming_event ("" None)
    event_msg,          \* what get_input_streaming_event returned
    stream_error,       \* what get_input_streaming_event raised
    taken,              \* the messages input_queue.get has handed out, in order
    nodes_arg,          \* argument `nodes` of the last depends_on call
    depends_on_result   \* how the last depends_on call ended

agentVars == <<apc, loop_num, previous_responses, intermediate_steps, action,
               responses, llm_calls, tool_runs, tool_ends>>

raceVars == <<runs, writers>>

streamVars == <<streaming, input_queue, done_event, gpc, wanted, event_msg,
                stream_error, taken>>

buildVars == <<nodes_arg, depends_on_result>>

vars == <<node, cache, pc, input_data, depends_result, cache_config,
          transformed_input, events, attempt, error, sleeps, worker,
          worker_out, worker_err, executes, stores, output, from_cache,
          result, agentVars, callbacks, deliveries, is_output_from_cache,
          raceVars, streamVars, buildVars>>

-----------------------------------------------------------------------------
(* Bounds of the model *)

MaxRetriesBound == 2
MaxDeps == 2

Intervals == {1, 2}
Rates == {0, 1, 2}

-----------------------------------------------------------------------------
(* Data model *)

RunnableStatus == {"SUCCESS", "FAILURE", "SKIP"}

\* ErrorHandling(): the defaults of the class
DefaultErrorHandling ==
    [timeout_seconds |-> "None", retry_interval_seconds |-> 1,
     max_retries |-> 0, backoff_rate |-> 1]

ErrorHandling ==
    [timeout_seconds : {"None", "finite"},
     retry_interval_seconds : Intervals,
     max_retries : 0..MaxRetriesBound,
     backoff_rate : Rates]

\* NodeDependency(node, option); option "" is None
NodeDependency == [node : 1..MaxDeps, option : {"", "opt"}]

\* the dependency lists built by depends_on / depends=[...] over distinct
\* predecessors 1..n
DependsLists ==
    UNION {{d \in [1..n -> NodeDependency] : \A i \in 1..n : d[i].node = i}
           : n \in 0..MaxDeps}

\* What a predecessor's entry of depends_result looks like to the validator:
\* status "MISSING" is no entry at all; `gate` is what
\* output.get(depend.option) finds: "not_dict" (output is no dict), "ABSENT"
\* (no such field, or a falsy one), or the status of the field.
GateViews == {"not_dict", "ABSENT", "SUCCESS", "FAILURE", "SKIP"}

DepResultsFor(dep) ==
    {[status |-> s, gate |-> "not_dict"] : s \in {"MISSING", "FAILURE", "SKIP"}}
    \cup {[status |-> "SUCCESS", gate |-> g] :
            g \in IF dep.option = "" THEN {"not_dict"} ELSE GateViews}

NoError == [kind |-> "None", attempt |-> 0]
NoValue == [v |-> "None", transformed |-> FALSE]
NoResult == [status |-> "NONE", output |-> NoValue, error |-> NoError,
             recoverable |-> FALSE, failed_depend |-> 0]

\* the cache key: node identity and effective input
CacheKey(inp) == [entity_id |-> "node", input |-> inp]

\* the backend holds nothing, or the output of an earlier run for one input
CacheStates ==
    {[k \in {} |-> NoValue]}
    \cup {[k \in {CacheKey(i)} |-> [v |-> "stored", transformed |-> FALSE]] :
            i \in {"merged", "transformed"}}

\* the plain nodes of the model: a node without dependencies under every
\* error-handling policy, and nodes with dependencies under the default one
PlainNodes ==
    {[kind |-> "plain", error_handling |-> eh, input_transformer |-> it,
      output_transformer |-> ot, caching |-> c, depends |-> <<>>] :
        eh \in ErrorHandling, it \in BOOLEAN, ot \in BOOLEAN, c \in BOOLEAN}
    \cup
    {[kind |-> "plain", error_handling |-> DefaultErrorHandling,
      input_transformer |-> it, output_transformer |-> FALSE, caching |-> c,
      depends |-> d] :
        it \in BOOLEAN, c \in BOOLEAN, d \in DependsLists \ {<<>>}}


-----------------------------------------------------------------------------
(* Pure helpers *)

RECURSIVE Pow(_, _)
\* Python's b ** e for a non-negative integer exponent (0 ** 0 is 1)
Pow(b, e) == IF e = 0 THEN 1 ELSE b * Pow(b, e - 1)

\* faulty variant: the first attempt is counted as a retry
n_attempt_without_first(eh) == eh.max_retries

\* execute_with_retry: n_attempt = self.error_handling.max_retries + 1
n_attempt(eh) == eh.max_retries + 1

\* faulty variant: the exponent counts from 1
time_to_sleep_from_one(eh, k) ==
    eh.retry_interval_seconds * Pow(eh.backoff_rate, k + 1)

\* execute_with_retry: retry_interval_seconds * (backoff_rate ** attempt)
time_to_sleep(eh, k) == eh.retry_interval_seconds * Pow(eh.backoff_rate, k)

\* faulty variant: a skipped predecessor is let through
validate_dependency_status_skip_passes(depend, dr) ==
    IF dr[depend.node].status = "MISSING" THEN "NodeException"
    ELSE IF dr[depend.node].status = "FAILURE" THEN "NodeFailedException"
    ELSE "None"

\* the kind of exception _validate_dependency_status raises for one
\* dependency ("None": it returns)
validate_dependency_status(depend, dr) ==
    IF dr[depend.node].status = "MISSING" THEN "NodeException"
    ELSE IF dr[depend.node].status = "FAILURE" THEN "NodeFailedException"
    ELSE IF dr[depend.node].status = "SKIP" THEN "NodeSkippedException"
    ELSE "None"

\* the kind of exception _validate_dependency_condition raises ("None": it
\* returns): only a dict output holding the gate's field with status FAILURE
validate_dependency_condition(depend, dr) ==
    IF /\ dr[depend.node].status # "MISSING"
       /\ dr[depend.node].gate # "not_dict"
       /\ dr[depend.node].gate # "ABSENT"
       /\ dr[depend.node].gate = "FAILURE"
    THEN "NodeConditionFailedException"
    ELSE "None"

RECURSIVE validate_depends_from(_, _, _)
\* validate_depends, from the i-th dependency on: the first exception raised
\* and the dependency that raised it, or kind "None" when the loop ends
validate_depends_from(depends, dr, i) ==
    IF i > Len(depends) THEN [kind |-> "None", failed_depend |-> 0]
    ELSE LET st == validate_dependency_status(depends[i], dr)
             cond == IF depends[i].option # ""
                     THEN validate_dependency_condition(depends[i], dr)
                     ELSE "None"
         IN  IF st # "None" THEN [kind |-> st, failed_depend |-> i]
             ELSE IF cond # "None" THEN [kind |-> cond, failed_depend |-> i]
             ELSE validate_depends_from(depends, dr, i + 1)

validate_depends(depends, dr) == validate_depends_from(depends, dr, 1)

\* Node.transform: the jsonpath filter and mapper give a new value
transform(data) == [v |-> data.v, transformed |-> TRUE]

\* cache_wf_entity: caching is on when the node and the run both enable it
cache_enabled(n, cc) == n.caching /\ cc

\* cache_wf_entity: the wrapper's lookup; a hit gives the stored output
cache_hit(c, n, cc, inp) == cache_enabled(n, cc) /\ CacheKey(inp) \in DOMAIN c

\* cache_wf_entity: the wrapper's store after the wrapped call returned
cache_set(c, n, cc, inp, out) ==
    IF cache_enabled(n, cc)
    THEN [k \in DOMAIN c \cup {CacheKey(inp)} |->
            IF k = CacheKey(inp) THEN out ELSE c[k]]
    ELSE c

\* faulty variant: every failure but a timeout is flagged
recoverable_unless_timeout(e) == e.kind # "TimeoutError"

\* format_value(e, recoverable=isinstance(e, RecoverableAgentException))
recoverable(e) == e.kind = "RecoverableAgentException"


\* faulty variant: the first failed attempt is not followed by a sleep
sleep_after_skips_first(eh, k) == 0 < k /\ k < n_attempt(eh) - 1

\* execute_with_retry: "do not sleep after the last attempt"
sleep_after(eh, k) == k < n_attempt(eh) - 1

\* faulty variant: the observers are called last-registered first
run_callbacks_reversed(cbs, event, delivered) ==
    delivered \o [i \in 1..Len(cbs) |->
                    [event |-> event, observer |-> cbs[Len(cbs) + 1 - i]]]

RECURSIVE run_callbacks(_, _, _)
\* run_on_node_*: for callback in callbacks: callback.on_node_*(...)
run_callbacks(cbs, event, delivered) ==
    IF cbs = <<>> THEN delivered
    ELSE run_callbacks(Tail(cbs), event,
                       Append(delivered,
                              [event |-> event, observer |-> Head(cbs)]))

RECURSIVE run_all(_, _, _)
\* the run_on_node_* calls of one step, in order
run_all(cbs, new_events, delivered) ==
    IF new_events = <<>> THEN delivered
    ELSE run_all(cbs, Tail(new_events),
                 run_callbacks(cbs, Head(new_events), delivered))

\* every event a step emits is handed to the observers inside that step
Deliver ==
    /\ callbacks' = callbacks
    /\ deliveries' = run_all(callbacks,
                             SubSeq(events', Len(events) + 1, Len(events')),
                             deliveries)

\* the depends_result maps a caller can pass for a dependency list
DependsResults(depends) ==
    {dr \in [1..Len(depends) ->
                UNION {DepResultsFor(depends[i]) : i \in 1..Len(depends)}] :
        \A i \in 1..Len(depends) : dr[i] \in DepResultsFor(depends[i])}

-----------------------------------------------------------------------------
(* Node.run *)

\* the state after construction, apart from the node, the cache backend and
\* the observers
InitRest ==
    /\ pc = "idle"
    /\ input_data = "None"
    /\ depends_result = <<>>
    /\ cache_config = FALSE
    /\ transformed_input = "None"
    /\ events = <<>>
    /\ attempt = 0
    /\ error = NoError
    /\ sleeps = <<>>
    /\ worker = "idle"
    /\ worker_out = NoValue
    /\ worker_err = "None"
    /\ executes = 0
    /\ stores = <<>>
    /\ output = NoValue
    /\ from_cache = FALSE
    /\ result = NoResult
    /\ apc = "idle"
    /\ loop_num = 0
    /\ previous_responses = <<>>
    /\ intermediate_steps = <<>>
    /\ action = ""
    /\ responses = <<>>
    /\ llm_calls = 0
    /\ tool_runs = 0
    /\ tool_ends = <<>>
    /\ deliveries = <<>>
    /\ is_output_from_cache = "None"
    /\ runs = <<>>
    /\ writers = <<>>
    /\ streaming = "None"
    /\ input_queue = <<>>
    /\ done_event = FALSE
    /\ gpc = "idle"
    /\ wanted = ""
    /\ event_msg = "None"
    /\ stream_error = "None"
    /\ taken = <<>>
    /\ nodes_arg = "None"
    /\ depends_on_result = "None"

Init ==
    /\ node \in PlainNodes
    /\ cache \in CacheStates
    /\ callbacks = <<1>>
    /\ InitRest

\* run is called; the input is merged with the tracing view of
\* depends_result, outside every try block: a non-mapping input raises
\* TypeError to the caller
RunWith(inp, dr, cc) ==
    /\ input_data' = inp
    /\ depends_result' = dr
    /\ cache_config' = cc
    /\ IF inp = "mapping"
       THEN /\ transformed_input' = "merged"
            /\ pc' = "validate"
            /\ result' = result
       ELSE /\ transformed_input' = transformed_input
            /\ pc' = "done"
            /\ result' = [NoResult EXCEPT !.status = "RAISED",
                                          !.error = [kind |-> "TypeError",
                                                     attempt |-> 0]]
    /\ UNCHANGED agentVars
    /\ UNCHANGED <<is_output_from_cache, raceVars, streamVars, buildVars>>
    /\ UNCHANGED <<worker_err, node, cache, events, attempt, error, sleeps, worker,
                   worker_out, executes, stores, output, from_cache>>
    /\ Deliver

\* run is called with some input, depends_result and config
Run ==
    /\ pc = "idle"
    /\ \E inp \in {"mapping", "other"}, cc \in BOOLEAN :
         \E dr \in DependsResults(node.depends) : RunWith(inp, dr, cc)

\* faulty variant: the failed validation is also routed to the error callback
ValidateDependsWithErrorEvent ==
    /\ pc = "validate"
    /\ LET e == validate_depends(node.depends, depends_result)
       IN  IF e.kind # "None"
           THEN /\ events' = events \o <<"node_skip", "node_error">>
                /\ result' = [NoResult EXCEPT !.status = "SKIP",
                                !.error = [kind |-> e.kind, attempt |-> 0],
                                !.failed_depend = e.failed_depend]
                /\ pc' = "done"
           ELSE /\ pc' = "transform_input"
                /\ UNCHANGED <<events, result>>
    /\ UNCHANGED agentVars
    /\ UNCHANGED <<is_output_from_cache, raceVars, streamVars, buildVars>>
    /\ UNCHANGED <<worker_err, node, cache, input_data, depends_result, cache_config,
                   transformed_input, attempt, error, sleeps, worker,
                   worker_out, executes, stores, output, from_cache>>
    /\ Deliver

\* try: self.validate_depends(depends_result) except NodeException: skip
ValidateDepends ==
    /\ pc = "validate"
    /\ LET e == validate_depends(node.depends, depends_result)
       IN  IF e.kind # "None"
           THEN /\ events' = Append(events, "node_skip")
                /\ result' = [NoResult EXCEPT !.status = "SKIP",
                                !.error = [kind |-> e.kind, attempt |-> 0],
                                !.failed_depend = e.failed_depend]
                /\ pc' = "done"
           ELSE /\ pc' = "transform_input"
                /\ UNCHANGED <<events, result>>
    /\ UNCHANGED agentVars
    /\ UNCHANGED <<is_output_from_cache, raceVars, streamVars, buildVars>>
    /\ UNCHANGED <<worker_err, node, cache, input_data, depends_result, cache_config,
                   transformed_input, attempt, error, sleeps, worker,
                   worker_out, executes, stores, output, from_cache>>
    /\ Deliver

\* faulty variant: a failed input transform is handed to the retry loop
TransformInputRetried(found) ==
    /\ pc = "transform_input"
    /\ node.input_transformer \/ found
    /\ IF node.input_transformer /\ ~found
       THEN /\ error' = [kind |-> "TransformError", attempt |-> 0]
            /\ pc' = "after_error"
            /\ UNCHANGED <<transformed_input, events>>
       ELSE /\ transformed_input' =
                  IF node.input_transformer THEN "transformed"
                  ELSE transformed_input
            /\ events' = Append(events, "node_start")
            /\ pc' = "cache"
            /\ error' = error
    /\ UNCHANGED agentVars
    /\ UNCHANGED <<is_output_from_cache, raceVars, streamVars, buildVars>>
    /\ UNCHANGED <<worker_err, node, cache, input_data, depends_result, cache_config,
                   attempt, sleeps, worker, worker_out, executes, stores,
                   output, from_cache, result>>
    /\ Deliver

\* the input transform, when one is configured, then run_on_node_start; a
\* missing path or selector target raises before the start event
TransformInput(found) ==
    /\ pc = "transform_input"
    /\ node.input_transformer \/ found
    /\ IF node.input_transformer /\ ~found
       THEN /\ error' = [kind |-> "TransformError", attempt |-> 0]
            /\ pc' = "error"
            /\ UNCHANGED <<transformed_input, events>>
       ELSE /\ transformed_input' =
                  IF node.input_transformer THEN "transformed"
                  ELSE transformed_input
            /\ events' = Append(events, "node_start")
            /\ pc' = "cache"
            /\ error' = error
    /\ UNCHANGED agentVars
    /\ UNCHANGED <<is_output_from_cache, raceVars, streamVars, buildVars>>
    /\ UNCHANGED <<worker_err, node, cache, input_data, depends_result, cache_config,
                   attempt, sleeps, worker, worker_out, executes, stores,
                   output, from_cache, result>>
    /\ Deliver

\* faulty variant: execute_with_retry is called without the cache lookup
CacheGateWithoutLookup ==
    /\ pc = "cache"
    /\ attempt' = 0
    /\ error' = NoError
    /\ pc' = "execute_start"
    /\ UNCHANGED agentVars
    /\ UNCHANGED <<is_output_from_cache, raceVars, streamVars, buildVars>>
    /\ UNCHANGED <<worker_err, node, cache, input_data, depends_result,
                   cache_config, transformed_input, events, sleeps, worker,
                   worker_out, executes, stores, result, output, from_cache>>
    /\ Deliver

\* cache(self.execute_with_retry)(transformed_input, ...): a hit gives the
\* stored output and from_cache = True without calling execute_with_retry
CacheGate ==
    /\ pc = "cache"
    /\ IF cache_hit(cache, node, cache_config, transformed_input)
       THEN /\ output' = cache[CacheKey(transformed_input)]
            /\ from_cache' = TRUE
            /\ pc' = "transform_output"
            /\ UNCHANGED <<attempt, error>>
       ELSE /\ attempt' = 0
            /\ error' = NoError
            /\ pc' = "execute_start"
            /\ UNCHANGED <<output, from_cache>>
    /\ UNCHANGED agentVars
    /\ UNCHANGED <<is_output_from_cache, raceVars, streamVars, buildVars>>
    /\ UNCHANGED <<worker_err, node, cache, input_data, depends_result, cache_config,
                   transformed_input, events, sleeps, worker, worker_out,
                   executes, stores, result>>
    /\ Deliver


-----------------------------------------------------------------------------
(* Node.execute_with_retry and Node.execute_with_timeout *)

\* head of `for attempt in range(n_attempt)`: run_on_node_execute_start and
\* executor.submit(self.execute, ...); when the range is exhausted the loop
\* ends and `raise error` follows
ExecuteStart ==
    /\ pc = "execute_start"
    /\ IF attempt < n_attempt(node.error_handling)
       THEN /\ events' = Append(events, "node_execute_start")
            /\ worker' = "running"
            /\ executes' = executes + 1
            /\ pc' = "future_result"
            /\ error' = error
       ELSE /\ error' = IF error = NoError
                        THEN [kind |-> "TypeError", attempt |-> attempt]
                        ELSE error
            /\ pc' = "error"
            /\ UNCHANGED <<events, worker, executes>>
    /\ UNCHANGED agentVars
    /\ UNCHANGED <<is_output_from_cache, raceVars, streamVars, buildVars>>
    /\ UNCHANGED <<worker_err, node, cache, input_data, depends_result, cache_config,
                   transformed_input, attempt, sleeps, worker_out, stores,
                   output, from_cache, result>>
    /\ Deliver

\* how the execute of a plain node ends: it returns an output, or raises an
\* ordinary exception or the agents' recoverable one
ExecuteEnds == {"ok", "Exception", "RecoverableAgentException"}

\* the worker runs execute of a plain node: it returns an output or raises
Execute(how) ==
    /\ node.kind = "plain"
    /\ worker = "running"
    /\ worker' = IF how = "ok" THEN "returned" ELSE "raised"
    /\ worker_out' = IF how = "ok" THEN [v |-> "out", transformed |-> FALSE]
                     ELSE NoValue
    /\ worker_err' = IF how = "ok" THEN "None" ELSE how
    /\ UNCHANGED agentVars
    /\ UNCHANGED <<is_output_from_cache, raceVars, streamVars, buildVars>>
    /\ UNCHANGED <<node, cache, pc, input_data, depends_result, cache_config,
                   transformed_input, events, attempt, error, sleeps,
                   executes, stores, output, from_cache, result>>
    /\ Deliver

\* faulty variant: the output of execute_with_retry is not stored
ExecuteEndWithoutStore ==
    /\ pc = "future_result"
    /\ worker = "returned"
    /\ worker' = "idle"
    /\ events' = Append(events, "node_execute_end")
    /\ output' = worker_out
    /\ from_cache' = FALSE
    /\ pc' = "transform_output"
    /\ UNCHANGED agentVars
    /\ UNCHANGED <<is_output_from_cache, raceVars, streamVars, buildVars>>
    /\ UNCHANGED <<worker_err, node, cache, stores, input_data, depends_result,
                   cache_config, transformed_input, attempt, error, sleeps,
                   worker_out, executes, result>>
    /\ Deliver

\* future.result(timeout) returns: run_on_node_execute_end, return output;
\* the cache wrapper stores what execute_with_retry returned
ExecuteEnd ==
    /\ pc = "future_result"
    /\ worker = "returned"
    /\ worker' = "idle"
    /\ events' = Append(events, "node_execute_end")
    /\ output' = worker_out
    /\ from_cache' = FALSE
    /\ cache' = cache_set(cache, node, cache_config, transformed_input,
                          worker_out)
    /\ stores' = IF cache_enabled(node, cache_config)
                 THEN Append(stores, CacheKey(transformed_input))
                 ELSE stores
    /\ pc' = "transform_output"
    /\ UNCHANGED agentVars
    /\ UNCHANGED <<is_output_from_cache, raceVars, streamVars, buildVars>>
    /\ UNCHANGED <<worker_err, node, input_data, depends_result, cache_config,
                   transformed_input, attempt, error, sleeps, worker_out,
                   executes, result>>
    /\ Deliver

\* faulty variant: the error of the first failed attempt is kept
ExecuteErrorKeepsFirst ==
    /\ pc = "future_result"
    /\ worker = "raised"
    /\ worker' = "idle"
    /\ error' = IF error = NoError
                THEN [kind |-> worker_err, attempt |-> attempt]
                ELSE error
    /\ events' = Append(events, "node_execute_error")
    /\ pc' = "after_error"
    /\ UNCHANGED agentVars
    /\ UNCHANGED <<is_output_from_cache, raceVars, streamVars, buildVars>>
    /\ UNCHANGED <<worker_err, node, cache, input_data, depends_result, cache_config,
                   transformed_input, attempt, sleeps, worker_out, executes,
                   stores, output, from_cache, result>>
    /\ Deliver

\* future.result(timeout) re-raises what execute raised: `except Exception`
\* keeps it as error and emits run_on_node_execute_error
ExecuteError ==
    /\ pc = "future_result"
    /\ worker = "raised"
    /\ worker' = "idle"
    /\ error' = [kind |-> worker_err, attempt |-> attempt]
    /\ events' = Append(events, "node_execute_error")
    /\ pc' = "after_error"
    /\ UNCHANGED agentVars
    /\ UNCHANGED <<is_output_from_cache, raceVars, streamVars, buildVars>>
    /\ UNCHANGED <<worker_err, node, cache, input_data, depends_result, cache_config,
                   transformed_input, attempt, sleeps, worker_out, executes,
                   stores, output, from_cache, result>>
    /\ Deliver

\* future.result(timeout) raises TimeoutError while the worker still runs;
\* leaving the `with ThreadPoolExecutor()` block then waits for the worker
TimeoutExpires ==
    /\ pc = "future_result"
    /\ worker = "running"
    /\ node.error_handling.timeout_seconds = "finite"
    /\ pc' = "shutdown"
    /\ UNCHANGED agentVars
    /\ UNCHANGED <<is_output_from_cache, raceVars, streamVars, buildVars>>
    /\ UNCHANGED <<worker_err, node, cache, input_data, depends_result, cache_config,
                   transformed_input, events, attempt, error, sleeps, worker,
                   worker_out, executes, stores, output, from_cache, result>>
    /\ Deliver

\* the executor's shutdown returned (the worker ended, its outcome is
\* dropped); `except TimeoutError` keeps the timeout as error and emits
\* run_on_node_execute_error
Shutdown ==
    /\ pc = "shutdown"
    /\ worker \in {"returned", "raised"}
    /\ worker' = "idle"
    /\ error' = [kind |-> "TimeoutError", attempt |-> attempt]
    /\ events' = Append(events, "node_execute_error")
    /\ pc' = "after_error"
    /\ UNCHANGED agentVars
    /\ UNCHANGED <<is_output_from_cache, raceVars, streamVars, buildVars>>
    /\ UNCHANGED <<worker_err, node, cache, input_data, depends_result, cache_config,
                   transformed_input, attempt, sleeps, worker_out, executes,
                   stores, output, from_cache, result>>
    /\ Deliver

\* after a failed attempt: time.sleep(time_to_sleep) unless it was the last
\* attempt, then the next iteration of the for loop
Sleep ==
    /\ pc = "after_error"
    /\ sleeps' = IF sleep_after(node.error_handling, attempt)
                 THEN Append(sleeps, time_to_sleep(node.error_handling, attempt))
                 ELSE sleeps
    /\ attempt' = attempt + 1
    /\ pc' = "execute_start"
    /\ UNCHANGED agentVars
    /\ UNCHANGED <<is_output_from_cache, raceVars, streamVars, buildVars>>
    /\ UNCHANGED <<worker_err, node, cache, input_data, depends_result, cache_config,
                   transformed_input, events, error, worker, worker_out,
                   executes, stores, output, from_cache, result>>
    /\ Deliver

-----------------------------------------------------------------------------
(* Node.run, after the cache gate *)

\* faulty variant: a cached output is returned without the output transform
TransformOutputCachedAsIs(found) ==
    /\ pc = "transform_output"
    /\ node.output_transformer \/ found
    /\ IF node.output_transformer /\ ~found
       THEN /\ error' = [kind |-> "TransformError", attempt |-> 0]
            /\ pc' = "error"
            /\ UNCHANGED <<events, result>>
       ELSE /\ events' = Append(events, "node_end")
            /\ result' = [NoResult EXCEPT !.status = "SUCCESS",
                            !.output = IF node.output_transformer /\ ~from_cache
                                       THEN transform(output) ELSE output]
            /\ pc' = "done"
            /\ error' = error
    /\ UNCHANGED agentVars
    /\ is_output_from_cache' = from_cache
    /\ UNCHANGED <<raceVars, streamVars, buildVars>>
    /\ UNCHANGED <<worker_err, node, cache, input_data, depends_result, cache_config,
                   transformed_input, attempt, sleeps, worker, worker_out,
                   executes, stores, output, from_cache>>
    /\ Deliver

\* faulty variant: a failed output transform is handed to the retry loop
TransformOutputRetried(found) ==
    /\ pc = "transform_output"
    /\ node.output_transformer \/ found
    /\ IF node.output_transformer /\ ~found
       THEN /\ error' = [kind |-> "TransformError", attempt |-> 0]
            /\ pc' = "after_error"
            /\ UNCHANGED <<events, result>>
       ELSE /\ events' = Append(events, "node_end")
            /\ result' = [NoResult EXCEPT !.status = "SUCCESS",
                            !.output = IF node.output_transformer
                                       THEN transform(output) ELSE output]
            /\ pc' = "done"
            /\ error' = error
    /\ UNCHANGED agentVars
    /\ is_output_from_cache' = from_cache
    /\ UNCHANGED <<raceVars, streamVars, buildVars>>
    /\ UNCHANGED <<worker_err, node, cache, input_data, depends_result, cache_config,
                   transformed_input, attempt, sleeps, worker, worker_out,
                   executes, stores, output, from_cache>>
    /\ Deliver

\* faulty variant: the end event is emitted before the output transform
TransformOutputAfterEnd(found) ==
    /\ pc = "transform_output"
    /\ node.output_transformer \/ found
    /\ events' = Append(events, "node_end")
    /\ IF node.output_transformer /\ ~found
       THEN /\ error' = [kind |-> "TransformError", attempt |-> 0]
            /\ pc' = "error"
            /\ result' = result
       ELSE /\ result' = [NoResult EXCEPT !.status = "SUCCESS",
                            !.output = IF node.output_transformer
                                       THEN transform(output) ELSE output]
            /\ pc' = "done"
            /\ error' = error
    /\ UNCHANGED agentVars
    /\ is_output_from_cache' = from_cache
    /\ UNCHANGED <<raceVars, streamVars, buildVars>>
    /\ UNCHANGED <<worker_err, node, cache, input_data, depends_result, cache_config,
                   transformed_input, attempt, sleeps, worker, worker_out,
                   executes, stores, output, from_cache>>
    /\ Deliver

\* transform_output(output), run_on_node_end, return SUCCESS; a failing
\* transform raises into `except Exception`
TransformOutput(found) ==
    /\ pc = "transform_output"
    /\ node.output_transformer \/ found
    /\ IF node.output_transformer /\ ~found
       THEN /\ error' = [kind |-> "TransformError", attempt |-> 0]
            /\ pc' = "error"
            /\ UNCHANGED <<events, result>>
       ELSE /\ events' = Append(events, "node_end")
            /\ result' = [NoResult EXCEPT !.status = "SUCCESS",
                            !.output = IF node.output_transformer
                                       THEN transform(output) ELSE output]
            /\ pc' = "done"
            /\ error' = error
    /\ UNCHANGED agentVars
    /\ is_output_from_cache' = from_cache
    /\ UNCHANGED <<raceVars, streamVars, buildVars>>
    /\ UNCHANGED <<worker_err, node, cache, input_data, depends_result, cache_config,
                   transformed_input, attempt, sleeps, worker, worker_out,
                   executes, stores, output, from_cache>>
    /\ Deliver

\* except Exception as e: run_on_node_error, return FAILURE
RunOnNodeError ==
    /\ pc = "error"
    /\ events' = Append(events, "node_error")
    /\ result' = [NoResult EXCEPT !.status = "FAILURE", !.error = error,
                                  !.recoverable = recoverable(error)]
    /\ pc' = "done"
    /\ UNCHANGED agentVars
    /\ UNCHANGED <<is_output_from_cache, raceVars, streamVars, buildVars>>
    /\ UNCHANGED <<worker_err, node, cache, input_data, depends_result, cache_config,
                   transformed_input, attempt, error, sleeps, worker,
                   worker_out, executes, stores, output, from_cache>>
    /\ Deliver

Next ==
    \/ Run
    \/ ValidateDepends
    \/ \E found \in BOOLEAN : TransformInput(found)
    \/ CacheGate
    \/ ExecuteStart
    \/ \E how \in ExecuteEnds : Execute(how)
    \/ ExecuteEnd
    \/ ExecuteError
    \/ TimeoutExpires
    \/ Shutdown
    \/ Sleep
    \/ \E found \in BOOLEAN : TransformOutput(found)
    \/ RunOnNodeError

Spec == Init /\ [][Next]_vars

\* runs of the plain nodes under every list of observers
MaxObservers == 2

CallbackLists == {[i \in 1..n |-> i] : n \in 0..MaxObservers}

InitObservers ==
    /\ node \in PlainNodes
    /\ cache \in CacheStates
    /\ callbacks \in CallbackLists
    /\ InitRest

SpecObservers == InitObservers /\ [][Next]_vars


-----------------------------------------------------------------------------
(* ReActAgent: data model *)

MaxLoopsBound == 2
MaxAgentRetries == 1

InferenceMode == {"DEFAULT", "XML", "FUNCTION_CALLING", "STRUCTURED_OUTPUT"}

\* the agent nodes of the model: no dependencies, transformers or caching
AgentNodes ==
    {[kind |-> "agent",
      error_handling |-> [DefaultErrorHandling EXCEPT !.max_retries = n],
      input_transformer |-> FALSE, output_transformer |-> FALSE,
      caching |-> FALSE, depends |-> <<>>,
      max_loops |-> m, inference_mode |-> im, tools |-> t, streaming |-> st] :
        n \in 0..MaxAgentRetries, m \in 1..MaxLoopsBound, im \in InferenceMode,
        t \in BOOLEAN, st \in BOOLEAN}

\* What self.llm.run gives back, as far as _run_agent looks at it:
\*   status         the RunnableStatus of the call
\*   marker         the content holds "Answer:" (DEFAULT) / "<answer>" (XML)
\*   function_name  tool_calls[0].function.name (FUNCTION_CALLING)
\*   shape          of the JSON carried: "plan" {thought, action, action_input},
\*                  "final" {thought, answer}, "bad_json" (json.loads fails),
\*                  "text" for the two text modes
\*   action         the action named ("" none); "search" is the registered tool
\*   input_valid    the action_input text is valid JSON (XML)
FailedResponse ==
    [status |-> "FAILURE", marker |-> FALSE, function_name |-> "",
     shape |-> "text", action |-> "", input_valid |-> FALSE]

Responses(mode) ==
    {FailedResponse} \cup
    CASE mode = "DEFAULT" ->
           {[status |-> "SUCCESS", marker |-> mk, function_name |-> "",
             shape |-> "text", action |-> a, input_valid |-> TRUE] :
               mk \in BOOLEAN, a \in {"", "search", "unknown"}}
      [] mode = "XML" ->
           {[status |-> "SUCCESS", marker |-> mk, function_name |-> "",
             shape |-> "text", action |-> a, input_valid |-> iv] :
               mk \in BOOLEAN, a \in {"", "search", "unknown"}, iv \in BOOLEAN}
      [] mode = "FUNCTION_CALLING" ->
           {[status |-> "SUCCESS", marker |-> FALSE, function_name |-> fn,
             shape |-> "plan", action |-> a, input_valid |-> TRUE] :
               fn \in {"plan_next_action", "provide_final_answer", "other"},
               a \in {"search", "unknown"}}
           \cup {[status |-> "SUCCESS", marker |-> FALSE, function_name |-> fn,
                  shape |-> sh, action |-> "", input_valid |-> TRUE] :
                    fn \in {"plan_next_action", "provide_final_answer", "other"},
                    sh \in {"final", "bad_json"}}
      [] mode = "STRUCTURED_OUTPUT" ->
           {[status |-> "SUCCESS", marker |-> FALSE, function_name |-> "",
             shape |-> "plan", action |-> a, input_valid |-> TRUE] :
               a \in {"", "search", "unknown", "finish"}}
           \cup {[status |-> "SUCCESS", marker |-> FALSE, function_name |-> "",
                  shape |-> "bad_json", action |-> "", input_valid |-> TRUE]}

\* AgentIntermediateStep(...).model_dump(), as far as the loop writes it
NewStep == [tool_using |-> "", tool_output |-> "", final_answer |-> ""]

\* self._intermediate_steps[loop_num] = AgentIntermediateStep(...)
tracing_intermediate(steps, n) ==
    [k \in DOMAIN steps \cup {n} |-> IF k = n THEN NewStep ELSE steps[k]]

\* self._intermediate_steps[loop_num]["final_answer"] = final_answer
tracing_final(steps, n, answer) ==
    [steps EXCEPT ![n].final_answer = answer]

\* faulty variant: an Action section is looked for before the "Answer:" marker
parse_default_action_first(r) ==
    IF r.action # ""
    THEN [outcome |-> "action", traced |-> TRUE, action |-> r.action]
    ELSE IF r.marker
    THEN [outcome |-> "answer", traced |-> TRUE, action |-> ""]
    ELSE [outcome |-> "ActionParsingException", traced |-> TRUE, action |-> ""]

\* What the mode's branch of `match self.inference_mode` makes of a
\* successful reply:
\*   outcome  "answer" (return final_answer), "action" (go on to the tool
\*            dispatch), or the exception raised
\*   traced   tracing_intermediate ran before the outcome
\*   action   the parsed action
parse_default(r) ==
    IF r.marker THEN [outcome |-> "answer", traced |-> TRUE, action |-> ""]
    ELSE IF r.action = ""
    THEN [outcome |-> "ActionParsingException", traced |-> TRUE, action |-> ""]
    ELSE [outcome |-> "action", traced |-> TRUE, action |-> r.action]

\* faulty variant: the JSONDecodeError of the action_input is not wrapped
parse_xml_unwrapped_error(r) ==
    IF r.marker THEN [outcome |-> "answer", traced |-> TRUE, action |-> ""]
    ELSE IF ~r.input_valid
    THEN [outcome |-> "JSONDecodeError", traced |-> TRUE, action |-> ""]
    ELSE [outcome |-> "action", traced |-> TRUE, action |-> r.action]

parse_xml(r) ==
    IF r.marker THEN [outcome |-> "answer", traced |-> TRUE, action |-> ""]
    ELSE IF ~r.input_valid
    THEN [outcome |-> "ActionParsingException", traced |-> TRUE, action |-> ""]
    ELSE [outcome |-> "action", traced |-> TRUE, action |-> r.action]

\* faulty variant: the terminating function is looked for under another name
parse_function_calling_wrong_name(r) ==
    IF r.shape = "bad_json"
    THEN [outcome |-> "JSONDecodeError", traced |-> FALSE, action |-> ""]
    ELSE IF r.function_name = "finish"
    THEN IF r.shape = "final"
         THEN [outcome |-> "answer", traced |-> TRUE, action |-> ""]
         ELSE [outcome |-> "KeyError", traced |-> TRUE, action |-> ""]
    ELSE IF r.shape = "plan"
         THEN [outcome |-> "action", traced |-> TRUE, action |-> r.action]
         ELSE [outcome |-> "KeyError", traced |-> TRUE, action |-> ""]

parse_function_calling(r) ==
    IF r.shape = "bad_json"
    THEN [outcome |-> "JSONDecodeError", traced |-> FALSE, action |-> ""]
    ELSE IF r.function_name = "provide_final_answer"
    THEN IF r.shape = "final"
         THEN [outcome |-> "answer", traced |-> TRUE, action |-> ""]
         ELSE [outcome |-> "KeyError", traced |-> TRUE, action |-> ""]
    ELSE IF r.shape = "plan"
         THEN [outcome |-> "action", traced |-> TRUE, action |-> r.action]
         ELSE [outcome |-> "KeyError", traced |-> TRUE, action |-> ""]

\* faulty variant: "finish" is not told apart from the other actions
parse_structured_output_no_finish(r) ==
    IF r.shape = "bad_json"
    THEN [outcome |-> "JSONDecodeError", traced |-> FALSE, action |-> ""]
    ELSE [outcome |-> "action", traced |-> TRUE, action |-> r.action]

parse_structured_output(r) ==
    IF r.shape = "bad_json"
    THEN [outcome |-> "JSONDecodeError", traced |-> FALSE, action |-> ""]
    ELSE IF r.action = "finish"
    THEN [outcome |-> "answer", traced |-> TRUE, action |-> r.action]
    ELSE [outcome |-> "action", traced |-> TRUE, action |-> r.action]

parse(mode, r) ==
    CASE mode = "DEFAULT" -> parse_default(r)
      [] mode = "XML" -> parse_xml(r)
      [] mode = "FUNCTION_CALLING" -> parse_function_calling(r)
      [] mode = "STRUCTURED_OUTPUT" -> parse_structured_output(r)

-----------------------------------------------------------------------------
(* ReActAgent._run_agent, run by the worker as the node's execute *)

\* an entry of previous_responses: the text appended and the Observation
\* part of it ("" none)
ContextEntry(kind, obs) == [kind |-> kind, observation |-> obs]

\* Agent._get_tool: the registered tool of that name, or the hard error
get_tool(a) == IF a = "search" THEN a ELSE "AgentUnknownToolException"

\* the message the tool's exception carries
ToolMessage == "rate limited"

\* faulty variant: only the message is rendered
format_exception_message_only(name, msg) == msg

\* f"{type(e).__name__}: {e}"
format_exception(name, msg) == name \o ": " \o msg

\* the text appended to the raw output: f"\nObservation: {tool_result}\n"
observation(tool_result) == "Observation: " \o tool_result

\* faulty variant: a failed model call raises out of the loop
iteration_kind_llm_error_fatal(n, r) ==
    IF r.status # "SUCCESS" THEN "Exception"
    ELSE LET p == parse(n.inference_mode, r)
         IN  IF p.outcome # "action" THEN p.outcome
             ELSE IF p.action # "" /\ n.tools THEN "dispatch"
             ELSE "no_tool"

\* faulty variant: an action is dispatched whether or not tools are registered
iteration_kind_dispatch_without_tools(n, r) ==
    IF r.status # "SUCCESS" THEN "llm_error"
    ELSE LET p == parse(n.inference_mode, r)
         IN  IF p.outcome # "action" THEN p.outcome
             ELSE IF p.action # "" THEN "dispatch"
             ELSE "no_tool"

\* how one iteration goes on after the model's reply:
\*   "llm_error"  the call failed: its error text is appended, continue
\*   "answer", "ActionParsingException", "KeyError", "JSONDecodeError"
\*                the parser's outcome
\*   "dispatch"   an action was parsed and the agent has tools
\*   "no_tool"    no action, or no tools: the raw output is appended
iteration_kind(n, r) ==
    IF r.status # "SUCCESS" THEN "llm_error"
    ELSE LET p == parse(n.inference_mode, r)
         IN  IF p.outcome # "action" THEN p.outcome
             ELSE IF p.action # "" /\ n.tools THEN "dispatch"
             ELSE "no_tool"

\* the iteration kinds after which the for loop goes to the next loop_num
Continues == {"llm_error", "ActionParsingException", "no_tool"}

\* Agent.execute: the run state is reset and _run_agent is entered
AgentExecute ==
    /\ node.kind = "agent"
    /\ worker = "running"
    /\ apc = "idle"
    /\ apc' = "loop"
    /\ loop_num' = 0
    /\ previous_responses' = <<>>
    /\ intermediate_steps' = <<>>
    /\ responses' = <<>>
    /\ tool_ends' = <<>>
    /\ action' = ""
    /\ UNCHANGED <<llm_calls, tool_runs>>
    /\ UNCHANGED <<node, cache, pc, input_data, depends_result, cache_config,
                   transformed_input, events, attempt, error, sleeps, worker,
                   worker_out, worker_err, executes, stores, output,
                   from_cache, result>>
    /\ Deliver
    /\ UNCHANGED <<is_output_from_cache, raceVars, streamVars, buildVars>>

\* faulty variant: the error text of a failed model call is not kept
IterateWithoutErrorText(r) ==
    LET kind == iteration_kind(node, r)
        p == parse(node.inference_mode, r)
        traced == IF r.status = "SUCCESS" /\ p.traced
                  THEN tracing_intermediate(intermediate_steps, loop_num)
                  ELSE intermediate_steps
    IN  /\ llm_calls' = llm_calls + 1
        /\ responses' = Append(responses, r)
        /\ intermediate_steps' =
             IF kind = "answer" THEN tracing_final(traced, loop_num, "answer")
             ELSE traced
        /\ events' = IF kind = "answer" /\ node.streaming
                     THEN Append(events, "node_execute_stream") ELSE events
        /\ previous_responses' =
             IF kind \in Continues \ {"llm_error"}
             THEN Append(previous_responses,
                         ContextEntry(IF kind = "no_tool" THEN "llm_output"
                                      ELSE kind, ""))
             ELSE previous_responses
        /\ loop_num' = IF kind \in Continues THEN loop_num + 1 ELSE loop_num
        /\ action' = IF kind = "dispatch" THEN p.action ELSE action
        /\ apc' = IF kind \in Continues THEN "loop"
                  ELSE IF kind = "dispatch" THEN "tool" ELSE "idle"
        /\ worker' = IF kind \in Continues \cup {"dispatch"} THEN worker
                     ELSE IF kind = "answer" THEN "returned" ELSE "raised"
        /\ worker_out' = IF kind = "answer"
                         THEN [v |-> "answer", transformed |-> FALSE]
                         ELSE worker_out
        /\ worker_err' = IF kind \in Continues \cup {"dispatch", "answer"}
                         THEN worker_err ELSE kind
        /\ UNCHANGED <<tool_runs, tool_ends>>
        /\ UNCHANGED <<node, cache, pc, input_data, depends_result,
                       cache_config, transformed_input, attempt, error, sleeps,
                       executes, stores, output, from_cache, result>>
        /\ Deliver
        /\ UNCHANGED <<is_output_from_cache, raceVars, streamVars, buildVars>>

\* one iteration of `for loop_num in range(self.max_loops)` up to the tool
\* dispatch: the prompt, self.llm.run and the mode's parsing of reply r
IterateWith(r) ==
    LET kind == iteration_kind(node, r)
        p == parse(node.inference_mode, r)
        traced == IF r.status = "SUCCESS" /\ p.traced
                  THEN tracing_intermediate(intermediate_steps, loop_num)
                  ELSE intermediate_steps
    IN  /\ llm_calls' = llm_calls + 1
        /\ responses' = Append(responses, r)
        /\ intermediate_steps' =
             IF kind = "answer" THEN tracing_final(traced, loop_num, "answer")
             ELSE traced
        /\ events' = IF kind = "answer" /\ node.streaming
                     THEN Append(events, "node_execute_stream") ELSE events
        /\ previous_responses' =
             IF kind \in Continues
             THEN Append(previous_responses,
                         ContextEntry(IF kind = "no_tool" THEN "llm_output"
                                      ELSE kind, ""))
             ELSE previous_responses
        /\ loop_num' = IF kind \in Continues THEN loop_num + 1 ELSE loop_num
        /\ action' = IF kind = "dispatch" THEN p.action ELSE action
        /\ apc' = IF kind \in Continues THEN "loop"
                  ELSE IF kind = "dispatch" THEN "tool" ELSE "idle"
        /\ worker' = IF kind \in Continues \cup {"dispatch"} THEN worker
                     ELSE IF kind = "answer" THEN "returned" ELSE "raised"
        /\ worker_out' = IF kind = "answer"
                         THEN [v |-> "answer", transformed |-> FALSE]
                         ELSE worker_out
        /\ worker_err' = IF kind \in Continues \cup {"dispatch", "answer"}
                         THEN worker_err ELSE kind
        /\ UNCHANGED <<tool_runs, tool_ends>>
        /\ UNCHANGED <<node, cache, pc, input_data, depends_result,
                       cache_config, transformed_input, attempt, error, sleeps,
                       executes, stores, output, from_cache, result>>
        /\ Deliver
        /\ UNCHANGED <<is_output_from_cache, raceVars, streamVars, buildVars>>

\* faulty variant: one iteration more than max_loops is run
AgentIterateOnceMore ==
    /\ node.kind = "agent"
    /\ worker = "running"
    /\ apc = "loop"
    /\ loop_num <= node.max_loops
    /\ \E r \in Responses(node.inference_mode) : IterateWith(r)

\* the body of the for loop is entered while loop_num is in
\* range(self.max_loops)
AgentIterate ==
    /\ node.kind = "agent"
    /\ worker = "running"
    /\ apc = "loop"
    /\ loop_num < node.max_loops
    /\ \E r \in Responses(node.inference_mode) : IterateWith(r)

\* the tool dispatch of the iteration: _get_tool, _run_tool, the Observation
\* appended to the output, the step record updated and streamed, the context
\* extended. tr is how tool.run ends: "ok", a RecoverableAgentException, or
\* another exception
ToolWith(tr) ==
    LET unknown == get_tool(action) = "AgentUnknownToolException"
        fatal == unknown \/ tr = "Exception"
        tool_result == IF tr = "ok" THEN "result"
                       ELSE format_exception(tr, ToolMessage)
    IN  /\ tool_runs' = IF unknown THEN tool_runs ELSE tool_runs + 1
        /\ tool_ends' = IF unknown THEN tool_ends
                        ELSE Append(tool_ends,
                                    [loop_num |-> loop_num, end |-> tr])
        /\ intermediate_steps' =
             IF fatal THEN intermediate_steps
             ELSE [intermediate_steps EXCEPT
                     ![loop_num].tool_using = action,
                     ![loop_num].tool_output = tool_result]
        /\ events' = IF ~fatal /\ node.streaming
                     THEN Append(events, "node_execute_stream") ELSE events
        /\ previous_responses' =
             IF fatal THEN previous_responses
             ELSE Append(previous_responses,
                         ContextEntry("llm_output", observation(tool_result)))
        /\ loop_num' = IF fatal THEN loop_num ELSE loop_num + 1
        /\ apc' = IF fatal THEN "idle" ELSE "loop"
        /\ worker' = IF fatal THEN "raised" ELSE worker
        /\ worker_err' = IF unknown THEN "AgentUnknownToolException"
                         ELSE IF fatal THEN "Exception" ELSE worker_err
        /\ UNCHANGED <<action, responses, llm_calls, worker_out>>
        /\ UNCHANGED <<node, cache, pc, input_data, depends_result,
                       cache_config, transformed_input, attempt, error, sleeps,
                       executes, stores, output, from_cache, result>>
        /\ Deliver
        /\ UNCHANGED <<is_output_from_cache, raceVars, streamVars, buildVars>>

AgentTool ==
    /\ node.kind = "agent"
    /\ worker = "running"
    /\ apc = "tool"
    /\ \E tr \in {"ok", "RecoverableAgentException", "Exception"} : ToolWith(tr)

\* faulty variant: the exhaustion is tested one iteration too late
AgentMaxLoopsOffByOne ==
    /\ node.kind = "agent"
    /\ worker = "running"
    /\ apc = "loop"
    /\ loop_num > node.max_loops
    /\ apc' = "idle"
    /\ worker' = "raised"
    /\ worker_err' = "AgentMaxLoopsReached"
    /\ UNCHANGED <<loop_num, previous_responses, intermediate_steps, action,
                   responses, llm_calls, tool_runs, tool_ends, worker_out>>
    /\ UNCHANGED <<node, cache, pc, input_data, depends_result, cache_config,
                   transformed_input, events, attempt, error, sleeps,
                   executes, stores, output, from_cache, result>>
    /\ Deliver
    /\ UNCHANGED <<is_output_from_cache, raceVars, streamVars, buildVars>>

\* the for loop ran out: raise AgentMaxLoopsReached
AgentMaxLoops ==
    /\ node.kind = "agent"
    /\ worker = "running"
    /\ apc = "loop"
    /\ loop_num >= node.max_loops
    /\ apc' = "idle"
    /\ worker' = "raised"
    /\ worker_err' = "AgentMaxLoopsReached"
    /\ UNCHANGED <<loop_num, previous_responses, intermediate_steps, action,
                   responses, llm_calls, tool_runs, tool_ends, worker_out>>
    /\ UNCHANGED <<node, cache, pc, input_data, depends_result, cache_config,
                   transformed_input, events, attempt, error, sleeps,
                   executes, stores, output, from_cache, result>>
    /\ Deliver
    /\ UNCHANGED <<is_output_from_cache, raceVars, streamVars, buildVars>>

InitAgent ==
    /\ node \in AgentNodes
    /\ cache \in {[k \in {} |-> NoValue]}
    /\ callbacks = <<1>>
    /\ InitRest

NextAgent ==
    \/ Run
    \/ ValidateDepends
    \/ \E found \in BOOLEAN : TransformInput(found)
    \/ CacheGate
    \/ ExecuteStart
    \/ AgentExecute
    \/ AgentIterate
    \/ AgentTool
    \/ AgentMaxLoops
    \/ ExecuteEnd
    \/ ExecuteError
    \/ Sleep
    \/ \E found \in BOOLEAN : TransformOutput(found)
    \/ RunOnNodeError

SpecAgent == InitAgent /\ [][NextAgent]_vars

\* an agent constructed without retries: its run is one execution of the loop
InitLoop == InitAgent /\ node.error_handling.max_retries = 0

\* one execution of the loop (an agent without retries) in which the worker
\* thread keeps running: every model call and every tool call comes back,
\* and the loop's own steps are taken
FairSpecAgent ==
    /\ InitLoop
    /\ [][NextAgent]_vars
    /\ WF_vars(AgentExecute)
    /\ WF_vars(AgentIterate)
    /\ WF_vars(AgentTool)
    /\ WF_vars(AgentMaxLoops)

-----------------------------------------------------------------------------
(* Concurrent runs of one node instance *)

\* Two threads call run on the same instance with the same input and a
\* config that permits caching. Each run has its own locals (runs[r]); the
\* cache backend and self._intermediate_steps are shared. The callbacks of
\* the racing runs are left out.
RunIds == {1, 2}

RaceNodes ==
    {n \in PlainNodes :
        /\ n.caching /\ ~n.input_transformer /\ ~n.output_transformer
        /\ n.depends = <<>> /\ n.error_handling = DefaultErrorHandling}
    \cup
    {n \in AgentNodes :
        /\ n.error_handling = DefaultErrorHandling
        /\ n.inference_mode = "DEFAULT" /\ n.tools /\ ~n.streaming}

\* the locals of a run that has just been called
NewRun ==
    [pc |-> "cache", loop_num |-> 0, action |-> "", output |-> NoValue,
     from_cache |-> FALSE, executed |-> 0, stored |-> 0, status |-> "NONE"]

\* everything the racing runs leave alone
raceUnchanged ==
    <<node, pc, input_data, depends_result, cache_config, transformed_input,
      events, attempt, error, sleeps, worker, worker_out, worker_err,
      executes, output, from_cache, result, apc, loop_num,
      previous_responses, action, responses, llm_calls, tool_runs, tool_ends,
      callbacks, deliveries, is_output_from_cache, streamVars, buildVars>>

\* run is called by thread r: merge, validate_depends (no dependencies),
\* run_on_node_start
RaceRun(r) ==
    /\ r \notin DOMAIN runs
    /\ runs' = [k \in DOMAIN runs \cup {r} |->
                  IF k = r THEN NewRun ELSE runs[k]]
    /\ UNCHANGED <<cache, stores, intermediate_steps, writers>>
    /\ UNCHANGED raceUnchanged

\* the cache wrapper's lookup in thread r
RaceCacheGate(r) ==
    /\ r \in DOMAIN runs
    /\ runs[r].pc = "cache"
    /\ runs' = IF cache_hit(cache, node, TRUE, "merged")
               THEN [runs EXCEPT ![r].output = cache[CacheKey("merged")],
                                 ![r].from_cache = TRUE,
                                 ![r].pc = "end"]
               ELSE [runs EXCEPT ![r].pc = "execute"]
    /\ UNCHANGED <<cache, stores, intermediate_steps, writers>>
    /\ UNCHANGED raceUnchanged

\* execute_with_retry in thread r: a plain node's execute returns or raises
\* (no retry under the default policy); an agent's execute resets the
\* instance's run state and enters the loop
RaceExecute(r, how) ==
    /\ r \in DOMAIN runs
    /\ runs[r].pc = "execute"
    /\ IF node.kind = "agent"
       THEN /\ runs' = [runs EXCEPT ![r].pc = "loop", ![r].loop_num = 0,
                                    ![r].executed = @ + 1]
            /\ intermediate_steps' = <<>>
            /\ writers' = <<>>
       ELSE /\ runs' = IF how = "ok"
                       THEN [runs EXCEPT ![r].pc = "store",
                                         ![r].executed = @ + 1,
                                         ![r].output =
                                            [v |-> "out", transformed |-> FALSE]]
                       ELSE [runs EXCEPT ![r].pc = "done",
                                         ![r].executed = @ + 1,
                                         ![r].status = "FAILURE"]
            /\ UNCHANGED <<intermediate_steps, writers>>
    /\ UNCHANGED <<cache, stores>>
    /\ UNCHANGED raceUnchanged

\* faulty variant: the store is skipped when the key has been stored meanwhile
RaceStoreIfAbsent(r) ==
    /\ r \in DOMAIN runs
    /\ runs[r].pc = "store"
    /\ IF cache_enabled(node, TRUE) /\ CacheKey("merged") \notin DOMAIN cache
       THEN /\ cache' = cache_set(cache, node, TRUE, "merged", runs[r].output)
            /\ stores' = Append(stores, CacheKey("merged"))
            /\ runs' = [runs EXCEPT ![r].pc = "end", ![r].stored = @ + 1]
       ELSE /\ runs' = [runs EXCEPT ![r].pc = "end"]
            /\ UNCHANGED <<cache, stores>>
    /\ UNCHANGED <<intermediate_steps, writers>>
    /\ UNCHANGED raceUnchanged

\* the cache wrapper's store of what execute_with_retry returned to thread r
RaceStore(r) ==
    /\ r \in DOMAIN runs
    /\ runs[r].pc = "store"
    /\ IF cache_enabled(node, TRUE)
       THEN /\ cache' = cache_set(cache, node, TRUE, "merged", runs[r].output)
            /\ stores' = Append(stores, CacheKey("merged"))
            /\ runs' = [runs EXCEPT ![r].pc = "end", ![r].stored = @ + 1]
       ELSE /\ runs' = [runs EXCEPT ![r].pc = "end"]
            /\ UNCHANGED <<cache, stores>>
    /\ UNCHANGED <<intermediate_steps, writers>>
    /\ UNCHANGED raceUnchanged

\* transform_output, run_on_node_end, return SUCCESS in thread r
RaceEnd(r) ==
    /\ r \in DOMAIN runs
    /\ runs[r].pc = "end"
    /\ runs' = [runs EXCEPT ![r].pc = "done", ![r].status = "SUCCESS"]
    /\ UNCHANGED <<cache, stores, intermediate_steps, writers>>
    /\ UNCHANGED raceUnchanged

\* run r has written the record of index n
written(w, n, r) ==
    [k \in DOMAIN w \cup {n} |->
        IF k = n THEN (IF n \in DOMAIN w THEN w[n] ELSE {}) \cup {r}
        ELSE w[k]]

\* one iteration of thread r's loop up to the tool dispatch, on reply resp:
\* tracing_intermediate and tracing_final write self._intermediate_steps
\* under the thread's own loop_num
RaceIterateWith(r, resp) ==
    LET n == runs[r].loop_num
        kind == iteration_kind(node, resp)
        p == parse(node.inference_mode, resp)
        traces == resp.status = "SUCCESS" /\ p.traced
        traced == IF traces THEN tracing_intermediate(intermediate_steps, n)
                  ELSE intermediate_steps
    IN  /\ intermediate_steps' =
             IF kind = "answer" THEN tracing_final(traced, n, "answer")
             ELSE traced
        /\ writers' = IF traces THEN written(writers, n, r) ELSE writers
        /\ runs' =
             IF kind = "answer"
             THEN [runs EXCEPT ![r].pc = "store",
                               ![r].output =
                                  [v |-> "answer", transformed |-> FALSE]]
             ELSE IF kind = "dispatch"
             THEN [runs EXCEPT ![r].pc = "tool", ![r].action = p.action]
             ELSE IF kind \in Continues
             THEN [runs EXCEPT ![r].loop_num = @ + 1]
             ELSE [runs EXCEPT ![r].pc = "done", ![r].status = "FAILURE"]
        /\ UNCHANGED <<cache, stores>>
        /\ UNCHANGED raceUnchanged

RaceIterate(r) ==
    /\ r \in DOMAIN runs
    /\ runs[r].pc = "loop"
    /\ runs[r].loop_num < node.max_loops
    /\ \E resp \in Responses(node.inference_mode) : RaceIterateWith(r, resp)

\* the tool dispatch of thread r's iteration: the record under the thread's
\* loop_num is updated with the tool's name and output (KeyError when the
\* record is gone)
RaceTool(r, tr) ==
    /\ r \in DOMAIN runs
    /\ runs[r].pc = "tool"
    /\ LET n == runs[r].loop_num
           fatal == \/ get_tool(runs[r].action) = "AgentUnknownToolException"
                    \/ tr = "Exception"
                    \/ n \notin DOMAIN intermediate_steps
           tool_result == IF tr = "ok" THEN "result"
                          ELSE format_exception(tr, ToolMessage)
       IN  IF fatal
           THEN /\ runs' = [runs EXCEPT ![r].pc = "done",
                                        ![r].status = "FAILURE"]
                /\ UNCHANGED <<intermediate_steps, writers>>
           ELSE /\ runs' = [runs EXCEPT ![r].pc = "loop",
                                        ![r].loop_num = @ + 1]
                /\ intermediate_steps' =
                     [intermediate_steps EXCEPT
                        ![n].tool_using = runs[r].action,
                        ![n].tool_output = tool_result]
                /\ writers' = written(writers, n, r)
    /\ UNCHANGED <<cache, stores>>
    /\ UNCHANGED raceUnchanged

\* thread r's for loop ran out: AgentMaxLoopsReached, FAILURE
RaceMaxLoops(r) ==
    /\ r \in DOMAIN runs
    /\ runs[r].pc = "loop"
    /\ runs[r].loop_num >= node.max_loops
    /\ runs' = [runs EXCEPT ![r].pc = "done", ![r].status = "FAILURE"]
    /\ UNCHANGED <<cache, stores, intermediate_steps, writers>>
    /\ UNCHANGED raceUnchanged

InitRace ==
    /\ node \in RaceNodes
    /\ cache \in {[k \in {} |-> NoValue]}
    /\ callbacks = <<1>>
    /\ InitRest

NextRace ==
    \E r \in RunIds :
        \/ RaceRun(r)
        \/ RaceCacheGate(r)
        \/ \E how \in {"ok", "Exception"} : RaceExecute(r, how)
        \/ RaceStore(r)
        \/ RaceEnd(r)
        \/ RaceIterate(r)
        \/ \E tr \in {"ok", "RecoverableAgentException", "Exception"} :
             RaceTool(r, tr)
        \/ RaceMaxLoops(r)

SpecRace == InitRace /\ [][NextRace]_vars

-----------------------------------------------------------------------------
(* Node.get_input_streaming_event *)

\* the number of messages a producer pushes
MaxMessages == 3

\* what a producer puts on the queue: text that is no StreamingEventMessage,
\* or a message carrying an event
StreamMessages ==
    {[valid |-> FALSE, event |-> ""]}
    \cup {[valid |-> TRUE, event |-> e] : e \in {"approve", "reject"}}

\* the streaming configuration in force (the override of the run's config,
\* else the node's): whether input streaming is on, whether a done event
\* was given, and the poll timeout (None blocks)
StreamingConfigs ==
    [input_streaming_enabled : BOOLEAN, has_done_event : BOOLEAN,
     timeout : {"None", "finite"}]

\* event_msg_type.model_validate_json(data) succeeds and, when an event is
\* asked for, the message carries it
validates(m, event) == m.valid /\ (event = "" \/ m.event = event)

\* `while not streaming.input_queue_done_event or not ....is_set()`
polling(st, done) == ~st.has_done_event \/ ~done

\* the variables of Node.run, of the loop and of the racing runs
runVars ==
    <<node, cache, pc, input_data, depends_result, cache_config,
      transformed_input, events, attempt, error, sleeps, worker, worker_out,
      worker_err, executes, stores, output, from_cache, result, agentVars,
      callbacks, deliveries, is_output_from_cache, raceVars>>

\* get_input_streaming_event(event_msg_type, event, config) is called; with
\* config = None the lookup config.nodes_override raises AttributeError
GetInputStreamingEvent(config, st, event) ==
    /\ gpc = "idle"
    /\ wanted' = event
    /\ IF config = "None"
       THEN /\ gpc' = "raised"
            /\ stream_error' = "AttributeError"
            /\ streaming' = streaming
       ELSE /\ streaming' = st
            /\ IF st.input_streaming_enabled
               THEN gpc' = "while" /\ stream_error' = stream_error
               ELSE /\ gpc' = "raised"
                    /\ stream_error' = "ValueError: not enabled"
    /\ UNCHANGED <<input_queue, done_event, event_msg, taken>>
    /\ UNCHANGED <<runVars, buildVars>>

\* the loop condition: once the done event is set the loop is left and the
\* trailing raise is reached
StreamWhile ==
    /\ gpc = "while"
    /\ IF polling(streaming, done_event)
       THEN gpc' = "get" /\ stream_error' = stream_error
       ELSE gpc' = "raised" /\ stream_error' = "ValueError: not enabled"
    /\ UNCHANGED <<streaming, input_queue, done_event, wanted, event_msg, taken>>
    /\ UNCHANGED <<runVars, buildVars>>

\* input_queue.get(timeout) hands out a message: a valid matching one is
\* returned, any other is logged and dropped (`continue`)
StreamGet ==
    /\ gpc = "get"
    /\ input_queue # <<>>
    /\ input_queue' = Tail(input_queue)
    /\ taken' = Append(taken, Head(input_queue))
    /\ IF validates(Head(input_queue), wanted)
       THEN gpc' = "returned" /\ event_msg' = Head(input_queue)
       ELSE gpc' = "while" /\ event_msg' = event_msg
    /\ UNCHANGED <<streaming, done_event, wanted, stream_error>>
    /\ UNCHANGED <<runVars, buildVars>>

\* faulty variant: an empty poll is followed by another poll
StreamTimeoutKeepsPolling ==
    /\ gpc = "get"
    /\ input_queue = <<>>
    /\ streaming.timeout = "finite"
    /\ gpc' = "while"
    /\ stream_error' = stream_error
    /\ UNCHANGED <<streaming, input_queue, done_event, wanted, event_msg, taken>>
    /\ UNCHANGED <<runVars, buildVars>>

\* input_queue.get(timeout) raises Empty: ValueError("Input streaming
\* timeout: ... exceeded.")
StreamTimeout ==
    /\ gpc = "get"
    /\ input_queue = <<>>
    /\ streaming.timeout = "finite"
    /\ gpc' = "raised"
    /\ stream_error' = "ValueError: timeout"
    /\ UNCHANGED <<streaming, input_queue, done_event, wanted, event_msg, taken>>
    /\ UNCHANGED <<runVars, buildVars>>

\* a producer puts a message on the queue
QueuePut(m) ==
    /\ Len(input_queue) + Len(taken) < MaxMessages
    /\ input_queue' = Append(input_queue, m)
    /\ UNCHANGED <<streaming, done_event, gpc, wanted, event_msg, stream_error,
                   taken>>
    /\ UNCHANGED <<runVars, buildVars>>

\* the producer sets the done event
DoneEventSet ==
    /\ ~done_event
    /\ done_event' = TRUE
    /\ UNCHANGED <<streaming, input_queue, gpc, wanted, event_msg, stream_error,
                   taken>>
    /\ UNCHANGED <<runVars, buildVars>>

InitStreaming ==
    /\ node \in {n \in PlainNodes :
                    /\ n.depends = <<>> /\ n.error_handling = DefaultErrorHandling
                    /\ ~n.caching /\ ~n.input_transformer
                    /\ ~n.output_transformer}
    /\ cache \in {[k \in {} |-> NoValue]}
    /\ callbacks = <<1>>
    /\ InitRest

NextStreaming ==
    \/ \E config \in {"None", "config"}, st \in StreamingConfigs,
          event \in {"", "approve"} : GetInputStreamingEvent(config, st, event)
    \/ StreamWhile
    \/ StreamGet
    \/ StreamTimeout
    \/ \E m \in StreamMessages : QueuePut(m)
    \/ DoneEventSet

SpecStreaming == InitStreaming /\ [][NextStreaming]_vars

-----------------------------------------------------------------------------
(* Node.depends_on *)

\* the longest list handed to depends_on and the longest dependency list built
MaxArgLen == 2
MaxDependsLen == 4

\* an element of the argument that is no Node instance
NotANode == 0

\* the arguments of depends_on: None, a single Node, a list of Nodes and
\* other elements, or any other value
DependsOnArgs ==
    {[shape |-> sh, items |-> <<>>] : sh \in {"None", "other"}}
    \cup {[shape |-> "node", items |-> <<n>>] : n \in 1..MaxDeps}
    \cup {[shape |-> "list", items |-> l] :
            l \in UNION {[1..k -> {NotANode} \cup 1..MaxDeps] : k \in 0..MaxArgLen}}

\* faulty variant: the elements of the list are not looked at
depends_on_unchecked_elements(depends, nodes) ==
    IF nodes.shape = "None"
    THEN [raised |-> "ValueError", depends |-> depends]
    ELSE IF nodes.shape \notin {"node", "list"}
    THEN [raised |-> "TypeError", depends |-> depends]
    ELSE IF nodes.items = <<>>
    THEN [raised |-> "ValueError", depends |-> depends]
    ELSE [raised |-> "None",
          depends |-> depends \o [i \in DOMAIN nodes.items |->
                                    [node |-> nodes.items[i], option |-> ""]]]

\* depends_on: the exception raised ("None": it returns self) and
\* self.depends afterwards
depends_on(depends, nodes) ==
    IF nodes.shape = "None"
    THEN [raised |-> "ValueError", depends |-> depends]
    ELSE IF \/ nodes.shape \notin {"node", "list"}
            \/ \E i \in DOMAIN nodes.items : nodes.items[i] = NotANode
    THEN [raised |-> "TypeError", depends |-> depends]
    ELSE IF nodes.items = <<>>
    THEN [raised |-> "ValueError", depends |-> depends]
    ELSE [raised |-> "None",
          depends |-> depends \o [i \in DOMAIN nodes.items |->
                                    [node |-> nodes.items[i], option |-> ""]]]

\* depends_on(nodes) is called on the node before it is run
DependsOn(nodes) ==
    /\ pc = "idle"
    /\ Len(node.depends) + Len(nodes.items) <= MaxDependsLen
    /\ LET r == depends_on(node.depends, nodes)
       IN  /\ node' = [node EXCEPT !.depends = r.depends]
           /\ depends_on_result' = IF r.raised = "None" THEN "self"
                                   ELSE r.raised
    /\ nodes_arg' = nodes
    /\ UNCHANGED <<cache, pc, input_data, depends_result, cache_config,
                   transformed_input, events, attempt, error, sleeps, worker,
                   worker_out, worker_err, executes, stores, output,
                   from_cache, result, agentVars, callbacks, deliveries,
                   is_output_from_cache, raceVars, streamVars>>

InitDepends ==
    /\ node \in {n \in PlainNodes :
                    /\ n.error_handling = DefaultErrorHandling
                    /\ ~n.caching /\ ~n.input_transformer
                    /\ ~n.output_transformer}
    /\ cache \in {[k \in {} |-> NoValue]}
    /\ callbacks = <<1>>
    /\ InitRest

NextDepends == \E nodes \in DependsOnArgs : DependsOn(nodes)

SpecDepends == InitDepends /\ [][NextDepends]_vars

-----------------------------------------------------------------------------
(* Properties of Node.run *)

Count(seq, x) == Cardinality({i \in DOMAIN seq : seq[i] = x})

\* the lifecycle events of the run (the stream and run events left out)
Lifecycle ==
    SelectSeq(events, LAMBDA e : e \in {"node_start", "node_end", "node_error",
        "node_skip", "node_execute_start", "node_execute_end",
        "node_execute_error"})

\* run has given a RunnableResult back to its caller
Returned == pc = "done" /\ result.status \in RunnableStatus

\* every execute attempt of the run failed and the error is on its way out
AllAttemptsFailed ==
    /\ pc \in {"error", "done"}
    /\ executes > 0
    /\ Count(events, "node_execute_end") = 0

\* C1: for every input, dependency-result map and node behaviour, Node.run
\* returns a RunnableResult with status SUCCESS, FAILURE or SKIP and lets no
\* exception escape to the caller.
C1_NoExceptionEscapes ==
    pc = "done" => result.status \in RunnableStatus

\* C2: with max_retries = N and execute failing on every attempt (raising or
\* timing out, in any mix), exactly N+1 execute-start events occur before the
\* error is returned: never more at any time, and not fewer once the error
\* leaves execute_with_retry.
C2_ExactlyNPlusOneAttempts ==
    /\ Count(events, "node_execute_start") <= node.error_handling.max_retries + 1
    /\ AllAttemptsFailed =>
         /\ Count(events, "node_execute_start")
              = node.error_handling.max_retries + 1
         /\ Count(events, "node_execute_error")
              = node.error_handling.max_retries + 1
         /\ executes = node.error_handling.max_retries + 1

C2_Witness ==
    /\ Returned
    /\ result.status = "FAILURE"
    /\ result.error.kind = "TimeoutError"
    /\ node.error_handling.max_retries = 2
    /\ Count(events, "node_execute_start") = 3

\* C3: the sleep after failed attempt k (k = 0 .. N-1) lasts
\* retry_interval_seconds * backoff_rate^k (the first lasts the interval,
\* each later one backoff_rate times its predecessor); a sleep only follows
\* a failed attempt that is not the last; exactly N sleeps occur when every
\* attempt fails.
C3_BackoffSleeps ==
    /\ \A k \in 1..Len(sleeps) :
         sleeps[k] = IF k = 1 THEN node.error_handling.retry_interval_seconds
                     ELSE sleeps[k - 1] * node.error_handling.backoff_rate
    /\ Len(sleeps) <= Count(events, "node_execute_error")
    /\ Len(sleeps) <= node.error_handling.max_retries
    /\ AllAttemptsFailed => Len(sleeps) = node.error_handling.max_retries

C3_Witness ==
    /\ Returned
    /\ result.status = "FAILURE"
    /\ node.error_handling.max_retries = 2
    /\ node.error_handling.retry_interval_seconds = 2
    /\ node.error_handling.backoff_rate = 2
    /\ sleeps = <<2, 4>>
    /\ Count(events, "node_execute_error") = 3

\* a declared dependency whose predecessor result is FAILURE or SKIP
HasFailedDependency ==
    /\ pc # "idle"
    /\ \E i \in 1..Len(node.depends) :
         depends_result[node.depends[i].node].status \in {"FAILURE", "SKIP"}

MatchesLifecyclePattern(e) ==
    /\ Len(e) >= 2
    /\ Len(e) % 2 = 0
    /\ e[1] = "node_start"
    /\ e[Len(e)] \in {"node_end", "node_error"}
    /\ \A i \in 2..(Len(e) - 1) :
         IF i % 2 = 0 THEN e[i] = "node_execute_start"
         ELSE e[i] \in {"node_execute_end", "node_execute_error"}

\* C5: within one Node.run that is not a dependency skip, over every outcome
\* (success, cache hit, input-transform failure, all attempts failing,
\* output-transform failure), the emitted callback sequence matches
\* start -> (execute-start -> (execute-end | execute-error))* -> (end | error).
C5_LifecycleOrder ==
    (Returned /\ result.status \in {"SUCCESS", "FAILURE"})
        => MatchesLifecyclePattern(Lifecycle)

\* the run passed the cache gate with caching on and a value stored before
\* the run for its node identity and effective input
CacheHitCase ==
    /\ pc \notin {"idle", "validate", "transform_input", "cache"}
    /\ result.status \notin {"SKIP", "RAISED"}
    /\ Count(events, "node_start") = 1
    /\ node.caching /\ cache_config
    /\ CacheKey(transformed_input) \in DOMAIN cache
    /\ stores = <<>>

\* C6: on a cache hit the run makes zero execute attempts (no execute-start,
\* no worker, no sleep) and the output handed to the output transform is the
\* stored value.
C6_CacheHitBypassesExecute ==
    CacheHitCase =>
        /\ pc \in {"transform_output", "error", "done"}
        /\ executes = 0
        /\ worker = "idle"
        /\ sleeps = <<>>
        /\ Count(events, "node_execute_start") = 0
        /\ from_cache
        /\ output = cache[CacheKey(transformed_input)]
        /\ (result.status = "SUCCESS" /\ ~node.output_transformer)
              => result.output = cache[CacheKey(transformed_input)]

C6_Witness ==
    /\ Returned
    /\ CacheHitCase
    /\ result.status = "SUCCESS"
    /\ result.output = [v |-> "stored", transformed |-> FALSE]
    /\ node.error_handling.max_retries = 2
    /\ node.error_handling.timeout_seconds = "finite"

\* C7: on a cache miss followed by a successful execution (possibly after
\* failed attempts) exactly one store is performed for the run, keyed by the
\* node's identity (and the effective input); as long as no attempt has
\* succeeded, and so when every attempt fails, no store is performed.
C7_OneStorePerSuccess ==
    /\ Len(stores) <= 1
    /\ Count(events, "node_execute_end") = 0 => stores = <<>>
    /\ (node.caching /\ cache_config /\ Count(events, "node_execute_end") > 0)
         => /\ stores = <<CacheKey(transformed_input)>>
            /\ stores[1].entity_id = "node"
            /\ cache[CacheKey(transformed_input)] = output

C7_Witness ==
    /\ Returned
    /\ result.status = "SUCCESS"
    /\ node.caching /\ cache_config
    /\ Count(events, "node_execute_error") = 2
    /\ Len(stores) = 1


-----------------------------------------------------------------------------
(* Properties of the reasoning loop *)

\* the node is an agent in the given inference mode
AgentIn(mode) == node.kind = "agent" /\ node.inference_mode = mode

\* C8: in DEFAULT mode a successful reply holding "Answer:" ends the loop on
\* its own iteration, whatever the loop_num and whether or not it also holds
\* an Action section: it is the last reply of the execute, the worker has
\* returned the extracted answer, the iteration's step holds the answer and
\* no tool, and neither a tool dispatch nor another attempt is pending.
C8_AnswerMarkerEndsLoop ==
    AgentIn("DEFAULT") =>
        \A i \in 1..Len(responses) :
            (responses[i].status = "SUCCESS" /\ responses[i].marker) =>
                /\ i = Len(responses)
                /\ loop_num = i - 1
                /\ apc = "idle"
                /\ worker \in {"returned", "idle"}
                /\ worker_out = [v |-> "answer", transformed |-> FALSE]
                /\ intermediate_steps[loop_num].final_answer = "answer"
                /\ intermediate_steps[loop_num].tool_using = ""
                /\ llm_calls >= i
                /\ pc \in {"future_result", "transform_output", "done"}

C8_Witness ==
    /\ AgentIn("DEFAULT")
    /\ node.tools
    /\ Returned
    /\ result.status = "SUCCESS"
    /\ result.output.v = "answer"
    /\ Len(responses) = 2
    /\ responses[2].marker /\ responses[2].action = "search"
    /\ tool_runs = 1
    /\ llm_calls = 2

\* a successful XML reply without <answer> whose action_input is no valid JSON
MalformedXml(r) == r.status = "SUCCESS" /\ ~r.marker /\ ~r.input_valid

\* C9: in XML mode an iteration whose reply carries a malformed action_input
\* (and no <answer>) never aborts the run: exactly one entry, the recoverable
\* parsing error, is appended to the context for it, no tool is dispatched
\* in it, and the loop goes on with the next loop_num (ending only by
\* exhausting max_loops if it was the last one).
C9_MalformedXmlIsAbsorbed ==
    AgentIn("XML") =>
        \A i \in 1..Len(responses) :
            MalformedXml(responses[i]) =>
                /\ loop_num >= i
                /\ Len(previous_responses) = loop_num
                /\ previous_responses[i] =
                     ContextEntry("ActionParsingException", "")
                /\ intermediate_steps[i - 1].tool_using = ""
                /\ i = Len(responses) =>
                     \/ apc = "loop" /\ worker = "running"
                     \/ /\ apc = "idle"
                        /\ loop_num = node.max_loops
                        /\ worker_err = "AgentMaxLoopsReached"

C9_Witness ==
    /\ AgentIn("XML")
    /\ node.tools
    /\ Returned
    /\ result.status = "SUCCESS"
    /\ Len(responses) = 2
    /\ MalformedXml(responses[1]) /\ responses[1].action = "search"
    /\ responses[2].marker
    /\ tool_runs = 0
    /\ previous_responses = <<ContextEntry("ActionParsingException", "")>>

\* C10: whenever the reasoning loop fails with "max loops reached" (where a
\* model that never signals termination leads), exactly max_loops iterations
\* were performed and exactly max_loops IntermediateStep records exist.
C10_ExhaustionLeavesMSteps ==
    (node.kind = "agent" /\ worker = "raised"
        /\ worker_err = "AgentMaxLoopsReached") =>
            /\ Len(responses) = node.max_loops
            /\ loop_num = node.max_loops
            /\ Cardinality(DOMAIN intermediate_steps) = node.max_loops

\* the loop of this execute has stopped iterating after its latest step:
\* it is at the head of the next iteration, or it ran out of iterations
GoesOn ==
    \/ apc = "loop" /\ worker = "running"
    \/ /\ apc = "idle"
       /\ loop_num = node.max_loops
       /\ worker_err = "AgentMaxLoopsReached"

\* C11: when a dispatched tool raises a recoverable error with message m the
\* loop is not aborted: the observation recorded for that iteration is the
\* text "RecoverableAgentException: m", the context entry of the iteration
\* holds "Observation: RecoverableAgentException: m", and the loop goes on
\* with the next loop_num.
C11_RecoverableToolErrorObserved ==
    node.kind = "agent" =>
        \A k \in 1..Len(tool_ends) :
            tool_ends[k].end = "RecoverableAgentException" =>
                LET n == tool_ends[k].loop_num
                IN  /\ intermediate_steps[n].tool_using = "search"
                    /\ intermediate_steps[n].tool_output =
                         "RecoverableAgentException: rate limited"
                    /\ loop_num > n
                    /\ Len(previous_responses) > n
                    /\ previous_responses[n + 1] =
                         ContextEntry("llm_output",
                           "Observation: RecoverableAgentException: rate limited")
                    /\ Len(responses) = n + 1 => GoesOn

C11_Witness ==
    /\ node.kind = "agent"
    /\ Returned
    /\ result.status = "SUCCESS"
    /\ tool_ends = <<[loop_num |-> 0, end |-> "RecoverableAgentException"]>>
    /\ Len(responses) = 2
    /\ Len(previous_responses) = 1
    /\ intermediate_steps[1].final_answer = "answer"

\* a successful FUNCTION_CALLING reply selecting provide_final_answer(answer)
SelectsFinalAnswer(r) ==
    /\ r.status = "SUCCESS"
    /\ r.function_name = "provide_final_answer"
    /\ r.shape = "final"

\* C12: in FUNCTION_CALLING mode a reply that selects provide_final_answer
\* ends the loop on its own iteration and returns the answer argument: it is
\* the last reply of the execute, no tool was dispatched in that iteration,
\* and neither another model call nor another attempt is pending.
C12_FinalAnswerFunctionEndsLoop ==
    AgentIn("FUNCTION_CALLING") =>
        \A i \in 1..Len(responses) :
            SelectsFinalAnswer(responses[i]) =>
                /\ i = Len(responses)
                /\ loop_num = i - 1
                /\ apc = "idle"
                /\ worker \in {"returned", "idle"}
                /\ worker_out = [v |-> "answer", transformed |-> FALSE]
                /\ intermediate_steps[loop_num].final_answer = "answer"
                /\ intermediate_steps[loop_num].tool_using = ""
                /\ \A k \in 1..Len(tool_ends) : tool_ends[k].loop_num < loop_num
                /\ pc \in {"future_result", "transform_output", "done"}

C12_Witness ==
    /\ AgentIn("FUNCTION_CALLING")
    /\ node.tools
    /\ Returned
    /\ result.status = "SUCCESS"
    /\ result.output.v = "answer"
    /\ Len(responses) = 2
    /\ responses[1].function_name = "plan_next_action"
    /\ SelectsFinalAnswer(responses[2])
    /\ tool_ends = <<[loop_num |-> 0, end |-> "ok"]>>
    /\ llm_calls = 2

\* some dependency declares a gate, its predecessor succeeded, and the
\* predecessor's output holds no field for the gate or one of status FAILURE
GateNotMet ==
    /\ pc # "idle"
    /\ input_data = "mapping"
    /\ \E i \in 1..Len(node.depends) :
         /\ node.depends[i].option # ""
         /\ depends_result[i].status = "SUCCESS"
         /\ depends_result[i].gate \in {"ABSENT", "FAILURE"}

\* C13: when a dependency declares a gate and its predecessor succeeded, the
\* dependent node executes only if the predecessor's output holds a field
\* keyed by the gate whose status is not FAILURE; with the field absent or of
\* status FAILURE execute is never called and the result is SKIP.
C13_GateRequiresPassingField ==
    GateNotMet =>
        /\ executes = 0
        /\ pc = "done" => result.status = "SKIP"

\* C14: once an execute attempt of an agent has ended by exhausting
\* max_loops, no further execute attempt is made for the run, whatever
\* max_retries is, and the run's result is FAILURE.
C14_ExhaustionIsNotRetried ==
    [][(node.kind = "agent" /\ error.kind = "AgentMaxLoopsReached"
            /\ pc # "done") =>
         /\ executes' = executes
         /\ error.attempt = 0 => Count(events', "node_execute_start") = 1
         /\ pc' = "done" => result'.status = "FAILURE"]_vars

\* C15: when the parsed action names no registered tool the error is fatal:
\* nothing is appended to the context for it, no further model call is made
\* in the run (by a next iteration or by a retry), and the result is FAILURE.
C15_UnknownToolIsFatal ==
    [][(node.kind = "agent" /\ worker_err = "AgentUnknownToolException"
            /\ pc # "done") =>
         /\ llm_calls' = llm_calls
         /\ previous_responses' = previous_responses
         /\ pc' = "done" => result'.status = "FAILURE"]_vars

\* C16: when the model call of an iteration returns a non-success status the
\* loop does not abort: the error text is the one entry appended to the
\* context for that iteration, no tool is dispatched in it, and the loop
\* goes on with the next loop_num (the iteration counting toward max_loops).
C16_FailedModelCallIsAbsorbed ==
    node.kind = "agent" =>
        \A i \in 1..Len(responses) :
            responses[i].status # "SUCCESS" =>
                /\ loop_num >= i
                /\ Len(previous_responses) = loop_num
                /\ previous_responses[i] = ContextEntry("llm_error", "")
                /\ \A k \in 1..Len(tool_ends) : tool_ends[k].loop_num # i - 1
                /\ i = Len(responses) => GoesOn

C16_Witness ==
    /\ node.kind = "agent"
    /\ node.tools
    /\ node.max_loops = 2
    /\ Returned
    /\ result.status = "SUCCESS"
    /\ Len(responses) = 2
    /\ responses[1].status = "FAILURE"
    /\ previous_responses = <<ContextEntry("llm_error", "")>>
    /\ llm_calls = 2
    /\ tool_runs = 0

\* C17: when an attempt exceeds timeout_seconds the caller does not wait for
\* the worker: from the moment the timeout has expired the timeout failure
\* can be reported (execute-error event, then retry or FAILURE) whether or
\* not the worker is still running.
C17_TimeoutDoesNotWaitForWorker ==
    pc = "shutdown" => ENABLED Shutdown

\* the worker is inside the reasoning loop / the loop has just ended
LoopRunning == node.kind = "agent" /\ apc \in {"loop", "tool"}
LoopEnded ==
    node.kind = "agent" /\ apc = "idle" /\ worker \in {"returned", "raised"}

\* the non-recoverable errors that leave the loop before max_loops
FatalErrors ==
    {"KeyError", "JSONDecodeError", "AgentUnknownToolException", "Exception"}

\* C18 (as stated): an ended execution of the loop in which every tool call
\* returned has ended with a final answer or with the max-loops error.
C18_EndsAnsweredOrExhausted ==
    (LoopEnded /\ \A k \in 1..Len(tool_ends) : tool_ends[k].end # "Exception")
        => \/ worker = "returned"
           \/ worker_err = "AgentMaxLoopsReached"

\* C18 (amended): every execution of the reasoning loop terminates after at
\* most max_loops iterations, and it ends with a final answer, with the
\* max-loops error (after exactly max_loops iterations), or with a
\* non-recoverable error raised by the parsing or the tool dispatch.
C18_LoopTerminates ==
    /\ [](node.kind = "agent" =>
            /\ Len(responses) <= node.max_loops
            /\ loop_num <= node.max_loops
            /\ LoopEnded =>
                 \/ worker = "returned" /\ worker_out.v = "answer"
                 \/ /\ worker = "raised"
                    /\ worker_err = "AgentMaxLoopsReached"
                    /\ Len(responses) = node.max_loops
                 \/ worker = "raised" /\ worker_err \in FatalErrors)
    /\ (LoopRunning ~> LoopEnded)

C18_Witness ==
    /\ LoopEnded
    /\ node.max_loops = 2
    /\ Len(responses) = 2
    /\ loop_num = 1
    /\ worker = "raised"
    /\ worker_err = "JSONDecodeError"

\* the exceptions validate_depends raises
NodeExceptions ==
    {"NodeException", "NodeFailedException", "NodeSkippedException",
     "NodeConditionFailedException"}

\* C19: when dependency validation fails, run emits exactly one event, the
\* skip event, and returns SKIP with a payload naming the failed dependency
\* (the first one that fails validation); no start, execute-start,
\* execute-end, execute-error, end or error event is emitted, the cache is
\* neither read nor written and execute is not called.
C19_SkipEmitsOnlySkip ==
    (pc = "done" /\ input_data = "mapping"
        /\ validate_depends(node.depends, depends_result).kind # "None") =>
            /\ result.status = "SKIP"
            /\ events = <<"node_skip">>
            /\ result.error.kind \in NodeExceptions
            /\ result.failed_depend \in 1..Len(node.depends)
            /\ result.failed_depend =
                 validate_depends(node.depends, depends_result).failed_depend
            /\ \A i \in 1..(result.failed_depend - 1) :
                 depends_result[i].status = "SUCCESS"
            /\ executes = 0
            /\ stores = <<>>
            /\ ~from_cache
            /\ output = NoValue
            /\ worker = "idle"

C19_Witness ==
    /\ Returned
    /\ result.status = "SKIP"
    /\ events = <<"node_skip">>
    /\ Len(node.depends) = 2
    /\ result.failed_depend = 2
    /\ result.error.kind = "NodeConditionFailedException"
    /\ node.caching /\ cache_config
    /\ CacheKey("merged") \in DOMAIN cache

\* the outcomes of an iteration the loop is meant to trace
TracedOutcomes ==
    {"llm_error", "ActionParsingException", "dispatch", "no_tool", "answer"}

\* C20: every iteration of the loop records an IntermediateStep keyed by its
\* loop_num, whatever its outcome (model-call failure, recoverable parse
\* error, tool dispatch, action without tools, final answer).
C20_EveryIterationIsTraced ==
    node.kind = "agent" =>
        \A i \in 1..Len(responses) :
            iteration_kind(node, responses[i]) \in TracedOutcomes =>
                (i - 1) \in DOMAIN intermediate_steps

\* C21: within one run of the loop the IntermediateStep indices are unique,
\* records are created in strictly increasing index order, and the first
\* record created has index 0.
C21_StepIndicesFromZero ==
    [][node.kind = "agent" =>
         \A k \in DOMAIN intermediate_steps' \ DOMAIN intermediate_steps :
             /\ \A j \in DOMAIN intermediate_steps : j < k
             /\ DOMAIN intermediate_steps = {} => k = 0]_vars

\* an iteration of the loop is completed by this step: the loop goes to the
\* next loop_num, or it returns the final answer
IterationCompletes ==
    \/ loop_num' = loop_num + 1
    \/ worker = "running" /\ worker' = "returned"

\* C22: with streaming enabled every iteration emits its IntermediateStep as
\* one execute-stream event before it is over, whatever its outcome
\* (recoverable parse error and no tool dispatched included).
C22_EveryIterationStreams ==
    [][(node.kind = "agent" /\ node.streaming /\ IterationCompletes) =>
         Count(events', "node_execute_stream") =
             Count(events, "node_execute_stream") + 1]_vars

\* a successful STRUCTURED_OUTPUT reply carrying {thought, action, action_input}
StructuredPlan(r) == r.status = "SUCCESS" /\ r.shape = "plan"

NamesOtherFunction(r) ==
    /\ r.status = "SUCCESS"
    /\ r.shape # "bad_json"
    /\ r.function_name \notin {"plan_next_action", "provide_final_answer"}

\* C24: in FUNCTION_CALLING mode a reply naming a function other than
\* plan_next_action and provide_final_answer yields neither an action nor a
\* final answer: no tool dispatch is pending or made for its iteration and
\* the loop does not return on it.
C24_OnlyTheTwoFunctionsAct ==
    AgentIn("FUNCTION_CALLING") =>
        \A i \in 1..Len(responses) :
            NamesOtherFunction(responses[i]) =>
                /\ ~(i = Len(responses) /\ apc = "tool")
                /\ \A k \in 1..Len(tool_ends) : tool_ends[k].loop_num # i - 1
                /\ (i - 1) \in DOMAIN intermediate_steps =>
                     intermediate_steps[i - 1].final_answer = ""

\* the configured input transform failed: run is past it and the input is
\* still the merged one
InputTransformFailed ==
    /\ node.input_transformer
    /\ input_data = "mapping"
    /\ validate_depends(node.depends, depends_result).kind = "None"
    /\ pc \in {"error", "done"}
    /\ transformed_input = "merged"

\* C25: when an input transform is configured and its path or selector
\* target is missing, run returns FAILURE without any execute attempt: no
\* execute-start event, no execute call, no retry and no backoff sleep,
\* whatever max_retries is.
C25_InputTransformFailureSkipsExecute ==
    InputTransformFailed =>
        /\ error = [kind |-> "TransformError", attempt |-> 0]
        /\ executes = 0
        /\ worker = "idle"
        /\ Count(events, "node_execute_start") = 0
        /\ Count(events, "node_execute_error") = 0
        /\ sleeps = <<>>
        /\ attempt = 0
        /\ stores = <<>>
        /\ pc = "done" =>
             /\ result.status = "FAILURE"
             /\ result.error.kind = "TransformError"
             /\ ~result.recoverable

C25_Witness ==
    /\ InputTransformFailed
    /\ node.error_handling.max_retries = 2
    /\ Returned
    /\ result.status = "FAILURE"
    /\ events = <<"node_error">>

\* C26: a FAILURE result is flagged recoverable exactly when the error that
\* ended the run is a RecoverableAgentException; timeouts, transform errors
\* and ordinary execute exceptions are flagged non-recoverable.
C26_RecoverableFlag ==
    (Returned /\ result.status = "FAILURE") =>
        /\ result.error = error
        /\ result.recoverable = (error.kind = "RecoverableAgentException")
        /\ error.kind \in {"TimeoutError", "TransformError", "Exception",
                           "TypeError"} => ~result.recoverable

C26_Witness ==
    /\ Returned
    /\ result.status = "FAILURE"
    /\ result.recoverable
    /\ result.error.kind = "RecoverableAgentException"
    /\ executes = 2

\* C29: on a cache hit run still emits node start and then node end with no
\* execute-* event between them, applies the output transform to the cached
\* output, passes the from-cache mark to the node-end event and returns
\* SUCCESS; on a miss the mark is false.
C29_CacheHitLifecycle ==
    (Returned /\ result.status = "SUCCESS") =>
        IF executes = 0
        THEN /\ cache_hit(cache, node, cache_config, transformed_input)
             /\ Lifecycle = <<"node_start", "node_end">>
             /\ is_output_from_cache = TRUE
             /\ result.output =
                  IF node.output_transformer
                  THEN transform(cache[CacheKey(transformed_input)])
                  ELSE cache[CacheKey(transformed_input)]
        ELSE /\ is_output_from_cache = FALSE
             /\ Count(events, "node_execute_end") = 1

C29_Witness ==
    /\ Returned
    /\ result.status = "SUCCESS"
    /\ executes = 0
    /\ node.output_transformer
    /\ node.input_transformer
    /\ result.output = [v |-> "stored", transformed |-> TRUE]
    /\ is_output_from_cache = TRUE
    /\ events = <<"node_start", "node_end">>

\* C30: each lifecycle event of a run is delivered exactly once to every
\* registered observer, in registration order, and the deliveries of one
\* event are complete before the run goes on: in every state of the run the
\* deliveries are the events so far, each followed through the observers in
\* their order.
C30_EveryObserverOnceInOrder ==
    LET n == Len(callbacks)
    IN  /\ Len(deliveries) = n * Len(events)
        /\ \A k \in 1..Len(events) : \A j \in 1..n :
             deliveries[(k - 1) * n + j] =
                 [event |-> events[k], observer |-> callbacks[j]]

C30_Witness ==
    /\ callbacks = <<1, 2>>
    /\ Returned
    /\ result.status = "FAILURE"
    /\ events = <<"node_start", "node_execute_start", "node_execute_error",
                  "node_execute_start", "node_execute_error", "node_error">>
    /\ Len(deliveries) = 12
    /\ deliveries[3] = [event |-> "node_execute_start", observer |-> 1]
    /\ deliveries[12] = [event |-> "node_error", observer |-> 2]

\* C27: IntermediateStep records belong to one run: when two runs of one
\* agent instance execute concurrently, no record is written (created,
\* overwritten or extended) by more than one of them.
C27_StepsBelongToOneRun ==
    \A k \in DOMAIN writers : Cardinality(writers[k]) <= 1

\* a run of the caching node that is past the cache wrapper
PastCache(r) ==
    /\ r \in DOMAIN runs
    /\ runs[r].pc \in {"end", "done"}
    /\ runs[r].status # "FAILURE"

\* C28: concurrent runs of one caching-enabled node with the same input are
\* not excluded from one another: a run that missed the cache executes and
\* stores, whatever the other run has stored meanwhile, so both may miss,
\* execute and store to the same key; each run stores at most once, and a
\* run that hit neither executes nor stores.
C28_RacingRunsBothStore ==
    (node.kind = "plain" /\ node.caching) =>
        /\ \A r \in DOMAIN runs :
             /\ runs[r].stored <= 1
             /\ runs[r].executed <= 1
             /\ PastCache(r) =>
                  IF runs[r].from_cache
                  THEN runs[r].executed = 0 /\ runs[r].stored = 0
                  ELSE runs[r].executed = 1 /\ runs[r].stored = 1
        /\ \A i \in 1..Len(stores) : stores[i] = CacheKey("merged")
        /\ Len(stores) <= Cardinality(DOMAIN runs)

C28_Witness ==
    /\ node.kind = "plain" /\ node.caching
    /\ DOMAIN runs = {1, 2}
    /\ \A r \in {1, 2} :
         /\ runs[r].pc = "done" /\ runs[r].status = "SUCCESS"
         /\ ~runs[r].from_cache
         /\ runs[r].executed = 1
         /\ runs[r].stored = 1
    /\ stores = <<CacheKey("merged"), CacheKey("merged")>>

\* C31: when every attempt fails, the error that execute_with_retry
\* propagates, and that the node-error event and the FAILURE result report,
\* is the error of the last attempt, not that of an earlier attempt.
C31_LastErrorPropagates ==
    AllAttemptsFailed =>
        /\ error.attempt = node.error_handling.max_retries
        /\ error.kind \in {"Exception", "RecoverableAgentException",
                           "TimeoutError"}
        /\ Returned =>
             /\ result.status = "FAILURE"
             /\ result.error = error
             /\ events[Len(events)] = "node_error"

C31_Witness ==
    /\ Returned
    /\ AllAttemptsFailed
    /\ node.error_handling.max_retries = 2
    /\ Count(events, "node_execute_error") = 3
    /\ result.error = [kind |-> "Exception", attempt |-> 2]

\* the output transform failed after an execute attempt of this run succeeded
OutputTransformFailed ==
    /\ pc \in {"error", "done"}
    /\ Count(events, "node_execute_end") = 1
    /\ error.kind = "TransformError"

\* C32: if the output transform fails after execute succeeded, Node.run
\* routes the error through the node-error event and returns FAILURE, and
\* the node is not executed again: the retry policy does not apply to
\* failures outside execute.
C32_OutputTransformFailureNotRetried ==
    /\ OutputTransformFailed =>
         /\ executes = Count(events, "node_execute_error") + 1
         /\ Count(events, "node_execute_start") = executes
         /\ worker = "idle"
         /\ Returned =>
              /\ result.status = "FAILURE"
              /\ result.error.kind = "TransformError"
              /\ Len(events) >= 2
              /\ events[Len(events)] = "node_error"
              /\ events[Len(events) - 1] = "node_execute_end"
    /\ (error.kind = "TransformError" /\ Count(events, "node_start") = 1)
         => pc \in {"error", "done"}

C32_Witness ==
    /\ Returned
    /\ OutputTransformFailed
    /\ node.error_handling.max_retries = 2
    /\ Count(events, "node_execute_error") = 1
    /\ executes = 2
    /\ result.status = "FAILURE"

\* C33: get_input_streaming_event, with input streaming enabled and the done
\* signal not set, raises an error when a poll receives no message within
\* the configured timeout (it neither returns nor keeps polling); messages
\* that fail validation or carry a different event are discarded and polling
\* continues, so only a valid matching message is ever returned.
C33_PollTimeoutIsHardError ==
    [][/\ (gpc = "get" /\ input_queue = <<>> /\ gpc' # gpc)
            => /\ gpc' = "raised"
               /\ stream_error' = "ValueError: timeout"
               /\ event_msg' = "None"
       /\ (gpc = "get" /\ input_queue # <<>> /\ gpc' # gpc)
            => IF validates(Head(input_queue), wanted)
               THEN gpc' = "returned" /\ event_msg' = Head(input_queue)
               ELSE /\ gpc' = "while"
                    /\ input_queue' = Tail(input_queue)
                    /\ event_msg' = "None"
       /\ (gpc = "while" /\ polling(streaming, done_event) /\ gpc' # gpc)
            => gpc' = "get"
       /\ gpc' = "returned"
            => /\ event_msg'.valid
               /\ wanted' = "" \/ event_msg'.event = wanted'
               /\ \A i \in 1..(Len(taken') - 1) : ~validates(taken'[i], wanted')
               /\ event_msg' = taken'[Len(taken')]
      ]_vars

C33_Witness ==
    /\ gpc = "raised"
    /\ stream_error = "ValueError: timeout"
    /\ ~done_event
    /\ wanted = "approve"
    /\ Len(taken) = 2
    /\ ~taken[1].valid
    /\ taken[2] = [valid |-> TRUE, event |-> "reject"]

\* the arguments depends_on has to reject: None, an empty list, a non-Node
\* value, a list containing a non-Node element
RejectedArg(a) ==
    \/ a.shape \in {"None", "other"}
    \/ a.shape = "list" /\ a.items = <<>>
    \/ a.shape = "list" /\ \E i \in DOMAIN a.items : a.items[i] \notin 1..MaxDeps

\* C34: depends_on(nodes) called with None, an empty list, a non-Node value
\* or a list containing any non-Node element raises (ValueError or
\* TypeError) and leaves the node's dependency list unchanged; called with a
\* Node or a non-empty list of Nodes it appends exactly one ungated
\* dependency per given node, in the given order after the existing ones,
\* and returns the node itself.
C34_DependsOnAppendsOrRaises ==
    [][IF RejectedArg(nodes_arg')
       THEN /\ depends_on_result' \in {"ValueError", "TypeError"}
            /\ node'.depends = node.depends
       ELSE /\ depends_on_result' = "self"
            /\ Len(node'.depends) = Len(node.depends) + Len(nodes_arg'.items)
            /\ \A i \in 1..Len(node.depends) :
                 node'.depends[i] = node.depends[i]
            /\ \A i \in 1..Len(nodes_arg'.items) :
                 node'.depends[Len(node.depends) + i]
                    = [node |-> nodes_arg'.items[i], option |-> ""]
      ]_vars

C34_Witness ==
    /\ depends_on_result = "self"
    /\ nodes_arg.shape = "list"
    /\ nodes_arg.items = <<2, 1>>
    /\ Len(node.depends) = 4
    /\ node.depends[2].option = "opt"
    /\ node.depends[3] = [node |-> 2, option |-> ""]
    /\ node.depends[4] = [node |-> 1, option |-> ""]

\* the terminal events of a run
TerminalEvents == {"node_skip", "node_end", "node_error"}

\* the terminal event that goes with a status
TerminalOf(status) ==
    CASE status = "SKIP" -> "node_skip"
      [] status = "SUCCESS" -> "node_end"
      [] status = "FAILURE" -> "node_error"

\* C35: every Node.run that returns has emitted exactly one kind of terminal
\* event, skip, end or error, and the returned status corresponds to it
\* (SKIP with skip, SUCCESS with end, FAILURE with error), assuming
\* observers do not raise.
C35_OneTerminalEvent ==
    /\ Returned =>
         /\ Cardinality({i \in DOMAIN events : events[i] \in TerminalEvents}) = 1
         /\ events[Len(events)] = TerminalOf(result.status)
    /\ ~Returned =>
         Cardinality({i \in DOMAIN events : events[i] \in TerminalEvents}) = 0

C35_Witness ==
    /\ Returned
    /\ result.status = "FAILURE"
    /\ result.error.kind = "TransformError"
    /\ Count(events, "node_execute_end") = 1
    /\ Count(events, "node_error") = 1
    /\ Count(events, "node_end") = 0

\* the execute-* events of the run, in order
ExecuteEvents ==
    SelectSeq(events, LAMBDA e : e \in {"node_execute_start",
        "node_execute_end", "node_execute_error"})

\* C36: once an execute attempt succeeds, no further attempt and no sleep
\* occurs in that run: at most one execute-end is emitted per run, it is the
\* last execute-* event, and with k failed attempts before it exactly k
\* execute-error events and k sleeps precede it.
C36_SuccessEndsRetrying ==
    /\ Count(events, "node_execute_end") <= 1
    /\ Count(events, "node_execute_end") = 1 =>
         /\ ExecuteEvents[Len(ExecuteEvents)] = "node_execute_end"
         /\ Count(events, "node_execute_error") = attempt
         /\ Len(sleeps) = attempt
         /\ Count(events, "node_execute_start") = attempt + 1
         /\ executes = attempt + 1
         /\ worker = "idle"
         /\ pc \in {"transform_output", "error", "done"}

C36_Witness ==
    /\ Returned
    /\ result.status = "SUCCESS"
    /\ Count(events, "node_execute_end") = 1
    /\ Count(events, "node_execute_error") = 2
    /\ sleeps = <<1, 2>>
    /\ executes = 3

\* the i-th declared dependency is invalid: its result is missing, failed
\* or skipped, or its gate's field has failed
InvalidDependency(i) ==
    \/ depends_result[node.depends[i].node].status
          \in {"MISSING", "FAILURE", "SKIP"}
    \/ /\ node.depends[i].option # ""
       /\ depends_result[node.depends[i].node].gate = "FAILURE"

\* a declared dependency has no entry in the depends_result run was given
MissingDependency ==
    /\ pc # "idle"
    /\ \E i \in 1..Len(node.depends) :
         depends_result[node.depends[i].node].status = "MISSING"

\* C40: if a declared dependency has no entry in depends_result, Node.run
\* emits a skip event and returns SKIP naming that dependency, rather than
\* FAILURE or an escaping exception; when several dependencies are invalid,
\* the one reported is the first invalid one in declaration order.
C40_MissingDependencySkips ==
    (pc = "done" /\ MissingDependency) =>
        /\ result.status = "SKIP"
        /\ events = <<"node_skip">>
        /\ InvalidDependency(result.failed_depend)
        /\ \A j \in 1..(result.failed_depend - 1) : ~InvalidDependency(j)

\* C37: in one execution of the reasoning loop, at the start of iteration k
\* the context holds exactly k entries: every non-terminating iteration
\* (model-call failure, recoverable parse error, tool dispatch, or action
\* without tools) appends exactly one entry, and no entry is ever removed,
\* replaced or reordered.
C37_ContextGrowsByOne ==
    [][/\ LoopRunning' => Len(previous_responses') = loop_num'
       /\ (LoopRunning /\ LoopRunning' /\ loop_num' # loop_num)
            => /\ loop_num' = loop_num + 1
               /\ Len(previous_responses') = Len(previous_responses) + 1
       /\ (LoopRunning /\ apc' # "idle")
            => \A i \in DOMAIN previous_responses :
                 /\ i \in DOMAIN previous_responses'
                 /\ previous_responses'[i] = previous_responses[i]
       /\ (LoopRunning /\ apc' = "idle")
            => previous_responses' = previous_responses
      ]_vars

C37_Witness ==
    /\ LoopRunning
    /\ apc = "loop"
    /\ loop_num = 2
    /\ Len(previous_responses) = 2
    /\ previous_responses[1].kind = "llm_error"
    /\ previous_responses[2].observation # ""

\* C38: in one Node.run of an agent with max_retries = N and max_loops = M,
\* the model is invoked at most M times within any single execute attempt
\* and at most (N+1) x M times in the whole run; every execute attempt
\* restarts the loop at loop_num 0 with an empty context.
C38_ModelCallsBounded ==
    node.kind = "agent" =>
        /\ Len(responses) <= node.max_loops
        /\ llm_calls <= executes * node.max_loops
        /\ llm_calls
             <= (node.error_handling.max_retries + 1) * node.max_loops
        /\ LoopRunning =>
             loop_num + (IF apc = "tool" THEN 1 ELSE 0) = Len(responses)
        /\ (LoopRunning /\ responses = <<>>) =>
             loop_num = 0 /\ previous_responses = <<>>

C38_Witness ==
    /\ Returned
    /\ node.kind = "agent"
    /\ node.error_handling.max_retries = 1
    /\ node.max_loops = 2
    /\ llm_calls = 4
    /\ executes = 2
    /\ result.status = "FAILURE"

\* C39: a tool is dispatched at most once per iteration, and only in an
\* iteration where the model call succeeded, the parser returned a
\* non-empty action without signalling termination, and the agent has at
\* least one tool registered; in every other iteration no tool runs and no
\* Observation text is added to the context.
C39_ToolOnlyAfterParsedAction ==
    node.kind = "agent" =>
        /\ \A j \in DOMAIN tool_ends :
             LET n == tool_ends[j].loop_num
             IN  /\ n + 1 \in DOMAIN responses
                 /\ responses[n + 1].status = "SUCCESS"
                 /\ parse(node.inference_mode, responses[n + 1]).outcome
                      = "action"
                 /\ parse(node.inference_mode, responses[n + 1]).action # ""
                 /\ node.tools
                 /\ \A k \in DOMAIN tool_ends :
                      tool_ends[k].loop_num = n => k = j
        /\ \A i \in DOMAIN previous_responses :
             previous_responses[i].observation # "" =>
                \E j \in DOMAIN tool_ends : tool_ends[j].loop_num = i - 1
        /\ tool_runs <= llm_calls

C39_Witness ==
    /\ node.kind = "agent"
    /\ node.tools
    /\ LoopRunning
    /\ Len(responses) = 2
    /\ responses[1].status = "SUCCESS" /\ responses[1].action = ""
    /\ tool_ends = <<[loop_num |-> 1, end |-> "ok"]>>
    /\ previous_responses[1].observation = ""
    /\ previous_responses[2].observation # ""

=============================================================================
